---- MODULE Spec2Model ----
(***************************************************************************)
(* Echo: the Action / Plan / Production / Worker / Sequence subsystem.     *)
(*                                                                         *)
(* One module, and one specification per part of the library:              *)
(*   SpecProduction  Struct::Sequence::Production (the FIFO queue) under   *)
(*                   concurrent callers;                                   *)
(*   SpecSequence    Struct::Sequence (Run / Again / Shutdown) driving a   *)
(*                   Production with a Worker;                             *)
(*   SpecAgain       the same under few retries, with a Worker that alters *)
(*                   the actions it is handed and fails with any kind of   *)
(*                   error;                                                *)
(*   SpecSteal       Example/WorkSteal.rs (WorkerStealingQueue and its     *)
(*                   worker loops);                                        *)
(*   SpecPlan        Struct::Sequence::Plan::Formality (Sign/Add/Remove);  *)
(*   SpecAction      Struct::Sequence::Action (New, WithMetadata, Execute  *)
(*                   and its stages) over a built registry;                *)
(*   SpecYell        Fn::Job::Yell (the remote bridge) with Struct::Job::  *)
(*                   Work and one Fn::Job worker loop;                     *)
(*   SpecRoute       Struct::Sequence with the StealingWorker of           *)
(*                   Example/WorkSteal.rs as its Worker;                   *)
(*   SpecDrain       the drain action of Example/Sequence.rs (ActionLogic  *)
(*                   for Action<ProcessQueueAction>) on a queue;           *)
(*   SpecRetry       Struct::Sequence with the Worker of                   *)
(*                   Example/Sequence.rs, which executes the action;       *)
(*   SpecLicense     Struct::Sequence with an executing Worker and the     *)
(*                   license Signals (Struct::Sequence::Signal) of the     *)
(*                   actions set from elsewhere.                           *)
(* Every specification leaves the variables of the parts it does not use   *)
(* at their initial values.                                                *)
(***************************************************************************)
EXTENDS Integers, Sequences, FiniteSets, TLC

VARIABLES
    \* ---- Production (src/Source/Struct/Sequence/Production.rs) ----
    Line,        \* the VecDeque behind the Mutex: a sequence of action ids
    LineLock,    \* the holder of Line's Mutex, or None
    cpc,         \* caller -> position of its current Take / Do call
    carg,        \* caller -> the action handed to its current Take call
    Got,         \* caller -> the actions its Do calls returned, in order
    cres,        \* caller -> None, or Some(the value its last Do call returned)
    Made,        \* the number of actions constructed so far
    Given,       \* history: the actions in the order push_back ran
    Taken,       \* history: the actions in the order pop_front returned them
    \* ---- Sequence (src/Source/Struct/Sequence.rs) ----
    Time,        \* the shutdown Signal<bool>
    pc,          \* the position of the task running Run
    Current,     \* the action Again owns, or None
    Retries,     \* Again's local counter (u32)
    MaxRetries,  \* Again's local bound (u32, as limbs)
    Delay,       \* the last backoff computed (u64 seconds, as limbs)
    Fate,        \* the configuration's max_retries: None or Some(i64, as limbs)
    Profile,     \* "debug" (overflow checks on) or "release" (wrapping)
    Script,      \* action -> the first attempt at which the Worker succeeds
    Attempts,    \* history: action -> the number of Site.Receive calls
    Outcome,     \* history: action -> what Again returned for it
    Owned,       \* the box Again owns (its Action parameter), or None
    Handed,      \* the box the Worker holds during an attempt, or None
    Grudge,      \* the kind of the error the Worker returns when it fails
    Calls,       \* the number of calls of Run so far
    Spoiled,     \* history: the Worker altered a box of an earlier attempt of
                 \* the action Again holds
    \* ---- WorkerStealingQueue and worker_loop (src/Example/WorkSteal.rs) ----
    Queues,      \* worker -> its Vec behind a Mutex
    QueueLock,   \* worker -> the holder of that Mutex, or None
    Running,     \* the flag the worker loops read
    wpc,         \* worker -> the position of its worker_loop
    QueuesOther, \* worker -> the victims its Do call has still to try; at
                 \* its return, the victim it stole from
    wres,        \* worker -> the value its Do call returned
    apc,         \* the position of main's Assign call
    aarg,        \* the deque and the action of main's Assign call
    Dealt,       \* the number of actions main has built
    Ran,         \* history: action -> the number of times it was executed
    Refilled,    \* history: worker -> a push has run since its Do call began
    \* ---- Formality (src/Source/Struct/Sequence/Plan/Formality.rs) ----
    Signature,   \* name -> None or Some(the signature declared under it)
    Function,    \* name -> None or Some(the function bound to it)
    Answer,      \* the last call on the registry, its result and the registry before it
    \* ---- Action (src/Source/Struct/Sequence/Action.rs) ----
    Metadata,      \* key -> None or Some(the JSON value stored under it)
    LicenseSignal, \* the action's Signal<bool>
    xpc,           \* the position of the task inside Execute
    ActionType,    \* Execute's local: the resolved type, or None
    HookAt,        \* ExecuteHooks' position in the Hooks array
    Events,        \* history: the stage events of the execution, in order
    Verdict,       \* what Execute returned, or None
    LicenseAtCall, \* history: the Signal's value when Execute was called
    LicenseRead,   \* history: the value CheckLicense read, or None
    \* ---- Yell, Work and the Job worker loop (src/Source/Fn/Job/Yell.rs,
    \*      src/Source/Struct/Job/Work.rs, src/Source/Fn/Job.rs) ----
    Heard,         \* the number of items Read.next() has yielded
    ReadOpen,      \* the stream has not ended
    Last,          \* history: the last item the bridge took from the stream
    JobQueue,      \* Work's Vec behind its Mutex
    JobLock,       \* the holder of that Mutex, or None
    ypc,           \* the position of the bridge
    yarg,          \* the action the bridge is assigning, or None
    Receipt,       \* the results in the channel, oldest first
    ApprovalOpen,  \* the sender of the channel is alive
    ReceiptAlive,  \* the receiver of the channel is alive
    Sent,          \* the results written to the socket, in order
    jpc,           \* the position of the worker loop
    jarg,          \* the action the worker loop holds, or None
    Recvd,         \* history: the results the bridge took from the channel
    Took,          \* history: the actions the worker loop took from Work, in order
    \* ---- ActionLogic for Action<ProcessQueueAction> (src/Example/Sequence.rs) ----
    dpc,           \* the position of the task inside the drain's Execute
    Drained,       \* history: the actions the drain executed, in order
    Mark,          \* history: the queue and the number of pushes when the drain was called
    \* ---- Signal (src/Source/Struct/Sequence/Signal.rs) ----
    Cells,         \* the Mutex<bool> behind each Arc: cell -> its value
    Tried          \* history: the attempts judged by the license, with their results

prodVars == <<Line, LineLock, cpc, carg, Got, cres, Made, Given, Taken>>

\* The Sequence's variables but Script, which the builder of an action sets.
boxVars == <<Owned, Handed, Spoiled>>

seqRest == <<Time, pc, Current, Retries, MaxRetries, Delay, Fate, Profile,
             Attempts, Outcome, boxVars, Grudge, Calls>>

seqVars == <<seqRest, Script>>

stealVars == <<Queues, QueueLock, Running, wpc, QueuesOther, wres, apc, aarg,
               Dealt, Ran, Refilled>>

planVars == <<Signature, Function, Answer>>

actVars == <<Metadata, LicenseSignal, xpc, ActionType, HookAt, Events, Verdict,
             LicenseAtCall, LicenseRead>>

yellVars == <<Heard, ReadOpen, Last, JobQueue, JobLock, ypc, yarg, Receipt,
              ApprovalOpen, ReceiptAlive, Sent, jpc, jarg, Recvd, Took>>

drainVars == <<dpc, Drained, Mark>>

licVars == <<Cells, Tried>>

vars == <<prodVars, seqVars, stealVars, planVars, actVars, yellVars, drainVars, licVars>>

\* Option<T>: None is the empty sequence, Some(x) the one-element sequence.
None == <<>>

Some(x) == <<x>>

\* ---------------------------------------------------------------- bounds

\* The number of actions the producers construct.
MaxActions == 3

\* The number of tasks that call Take and Do on one Production.
NumCallers == 2

\* The number of actions main hands to the Work of a running Sequence.
SeqActions == 2

\* The number of workers (and deques) of the WorkerStealingQueue.
Force == 2

\* The number of actions main assigns to the deques.
StealActions == 2

\* The number of items the peer's stream yields to the bridge.
MaxFrames == 3

\* The number of times Run is called on one Sequence.
MaxRuns == 2

\* The latest attempt at which a Worker's answer turns to Ok, where the
\* retries are not bounded by a small max_retries.
MaxScript == 5

\* ------------------------------------------------------ program constants

\* unwrap_or(3)
DefaultMaxRetries == 3

\* gen_range(0..1000)
JitterBound == 1000

\* 2u64: the width of the backoff's base
U64Bits == 64

Ids == 1..(IF MaxActions > SeqActions THEN MaxActions ELSE SeqActions)
Callers == 1..NumCallers

\* ------------------------------------------------------------ Production

\* VecDeque::push_back
push_back(q, a) == Append(q, a)

\* pop_front gone wrong: the last element taken (Vec::pop on a deque).
pop_back(q) ==
    IF q = <<>>
    THEN [value |-> None, rest |-> q]
    ELSE [value |-> Some(q[Len(q)]), rest |-> SubSeq(q, 1, Len(q) - 1)]

\* pop_front gone wrong: the head handed out and left in place (front().cloned()).
front_cloned(q) ==
    IF q = <<>>
    THEN [value |-> None, rest |-> q]
    ELSE [value |-> Some(Head(q)), rest |-> q]

\* VecDeque::pop_front: the value returned (None on an empty deque) and the
\* deque it leaves.
pop_front(q) ==
    IF q = <<>>
    THEN [value |-> None, rest |-> q]
    ELSE [value |-> Some(Head(q)), rest |-> Tail(q)]

ProductionNew ==
    /\ Line = <<>>
    /\ LineLock = None
    /\ cpc = [c \in Callers |-> "idle"]
    /\ carg = [c \in Callers |-> None]
    /\ Got = [c \in Callers |-> <<>>]
    /\ cres = [c \in Callers |-> None]
    /\ Made = 0
    /\ Given = <<>>
    /\ Taken = <<>>

\* A caller builds an action (Action::New), for which the Worker will follow
\* script k, and calls Take with it.
CallTake(c, k) ==
    /\ cpc[c] = "idle"
    /\ Made < MaxActions
    /\ Made' = Made + 1
    /\ carg' = [carg EXCEPT ![c] = Some(Made + 1)]
    /\ cpc' = [cpc EXCEPT ![c] = "take_lock"]
    /\ UNCHANGED <<Line, LineLock, Got, cres, Given, Taken>>
    /\ Script' = [Script EXCEPT ![Made + 1] = k]
    /\ UNCHANGED <<seqRest, stealVars, planVars, actVars, yellVars, drainVars, licVars>>

\* Take: self.Line.lock().await
TakeLock(c) ==
    /\ cpc[c] = "take_lock"
    /\ LineLock = None
    /\ LineLock' = Some(c)
    /\ cpc' = [cpc EXCEPT ![c] = "take_push"]
    /\ UNCHANGED <<Line, carg, Got, cres, Made, Given, Taken>>
    /\ UNCHANGED <<seqVars, stealVars, planVars, actVars, yellVars, drainVars, licVars>>

\* Take: .push_back(Action); the guard is dropped at the end of the statement.
TakePush(c) ==
    /\ cpc[c] = "take_push"
    /\ LineLock = Some(c)
    /\ Line' = push_back(Line, carg[c][1])
    /\ Given' = Append(Given, carg[c][1])
    /\ LineLock' = None
    /\ carg' = [carg EXCEPT ![c] = None]
    /\ cpc' = [cpc EXCEPT ![c] = "idle"]
    /\ UNCHANGED <<Got, cres, Made, Taken>>
    /\ UNCHANGED <<seqVars, stealVars, planVars, actVars, yellVars, drainVars, licVars>>

\* A caller calls Do.
CallDo(c) ==
    /\ cpc[c] = "idle"
    /\ cpc' = [cpc EXCEPT ![c] = "do_lock"]
    /\ cres' = [cres EXCEPT ![c] = None]
    /\ UNCHANGED <<Line, LineLock, carg, Got, Made, Given, Taken>>
    /\ UNCHANGED <<seqVars, stealVars, planVars, actVars, yellVars, drainVars, licVars>>

\* Do: self.Line.lock().await
DoLock(c) ==
    /\ cpc[c] = "do_lock"
    /\ LineLock = None
    /\ LineLock' = Some(c)
    /\ cpc' = [cpc EXCEPT ![c] = "do_pop"]
    /\ UNCHANGED <<Line, carg, Got, cres, Made, Given, Taken>>
    /\ UNCHANGED <<seqVars, stealVars, planVars, actVars, yellVars, drainVars, licVars>>

\* Do gone wrong: on an empty deque the call waits for an enqueue (the recv
\* of a channel) in place of returning None.
DoPopWaits(c) ==
    /\ cpc[c] = "do_pop"
    /\ LineLock = Some(c)
    /\ Line # <<>>
    /\ LET r == pop_front(Line) IN
        /\ Got' = [Got EXCEPT ![c] = Append(@, r.value[1])]
        /\ Taken' = Append(Taken, r.value[1])
        /\ Line' = r.rest
        /\ cres' = [cres EXCEPT ![c] = Some(r.value)]
    /\ LineLock' = None
    /\ cpc' = [cpc EXCEPT ![c] = "idle"]
    /\ UNCHANGED <<carg, Made, Given>>
    /\ UNCHANGED <<seqVars, stealVars, planVars, actVars, yellVars, drainVars, licVars>>

\* Do: .pop_front(); the guard is dropped as the call returns.
DoPop(c) ==
    /\ cpc[c] = "do_pop"
    /\ LineLock = Some(c)
    /\ LET r == pop_front(Line) IN
        /\ Got' = [Got EXCEPT ![c] = IF r.value = None THEN @ ELSE Append(@, r.value[1])]
        /\ Taken' = IF r.value = None THEN Taken ELSE Append(Taken, r.value[1])
        /\ Line' = r.rest
        /\ cres' = [cres EXCEPT ![c] = Some(r.value)]
    /\ LineLock' = None
    /\ cpc' = [cpc EXCEPT ![c] = "idle"]
    /\ UNCHANGED <<carg, Made, Given>>
    /\ UNCHANGED <<seqVars, stealVars, planVars, actVars, yellVars, drainVars, licVars>>

ProductionNext ==
    \E c \in Callers :
        \/ CallTake(c, 1)
        \/ TakeLock(c)
        \/ TakePush(c)
        \/ CallDo(c)
        \/ DoLock(c)
        \/ DoPop(c)

\* ----------------------------------------------------- machine integers
\* TLC's integers are 32 bits wide, so an i64 / u64 is four 16-bit limbs and
\* a u32 two, most significant first. Every conversion acts on the limbs.

LimbBase == 2 ^ 16

\* A non-negative value below 2^16 as an i64.
I64(n) == <<0, 0, 0, n>>

\* 2^32 as an i64.
I64TwoTo32 == <<0, 1, 0, 0>>

\* -1 as an i64, in two's complement.
I64MinusOne == <<LimbBase - 1, LimbBase - 1, LimbBase - 1, LimbBase - 1>>

\* u32::MAX, 2^32 - 1.
U32Max == <<LimbBase - 1, LimbBase - 1>>

\* The conversion gone wrong: a value out of range is clamped to the nearest
\* end of the range (u32::try_from with a saturating fallback).
AsU32Saturating(v) ==
    IF v[1] >= LimbBase \div 2
    THEN <<0, 0>>
    ELSE IF v[1] # 0 \/ v[2] # 0 THEN U32Max ELSE <<v[3], v[4]>>

\* `x as u32` of an i64: the low 32 bits.
AsU32(v) == <<v[3], v[4]>>

\* r >= m for a loop counter r (far below 2^31) and a u32 m.
GeU32(r, m) ==
    \/ r \div LimbBase > m[1]
    \/ (r \div LimbBase = m[1] /\ r % LimbBase >= m[2])

\* 2u64.pow(e): exact below 2^64; past it the debug profile panics and the
\* release profile wraps, which leaves 0.
Pow2U64(e) ==
    IF e >= U64Bits
    THEN [overflow |-> TRUE, value |-> <<0, 0, 0, 0>>]
    ELSE [overflow |-> FALSE,
          value |-> [i \in 1..4 |->
                        IF 4 - i = e \div 16 THEN 2 ^ (e % 16) ELSE 0]]

\* u64 + a value below 2^16, with the carry through the limbs.
AddU64(v, j) ==
    LET s4 == v[4] + j
        s3 == v[3] + s4 \div LimbBase
        s2 == v[2] + s3 \div LimbBase
        s1 == v[1] + s2 \div LimbBase
    IN  [overflow |-> s1 >= LimbBase,
         value |-> <<s1 % LimbBase, s2 % LimbBase, s3 % LimbBase, s4 % LimbBase>>]

\* -------------------------------------------------------------- Sequence

\* The task that runs Run, as a holder of Line's Mutex.
Driver == NumCallers + 1

\* The task that builds the actions and hands them to Work (main).
Main == 1

\* Script values: the Worker succeeds first at attempt 1 or 2, or never.
Never == 0

Scripts == {1, 2, Never}

\* rand::thread_rng().gen_range(0..1000): the extremes.
Jitters == {0, JitterBound - 1}

\* The settings tried for max_retries.
Fates == {None, Some(I64(0)), Some(I64(1)), Some(I64(U64Bits)), Some(I64TwoTo32)}

Profiles == {"debug", "release"}

\* Enum::Sequence::Action::Error: the kinds of error a Worker can return.
Kinds == {"InvalidLicense", "ExecutionError", "RoutingError", "CancellationError"}

\* The action main builds under id a, as the Worker can see it: its metadata,
\* its payload and the cell its LicenseSignal points to (Signal::New makes a
\* cell for each action built).
Box(a) == [Metadata |-> a, Content |-> a, LicenseSignal |-> a]

\* A field the Worker has altered in a box it owns.
Spent == 0

\* The cell of a Signal that a duplicate makes for itself: no action built by
\* main points to it.
FreshCell == Spent

\* The fields of a box a Worker may alter.
Fields == {"Metadata", "Content"}

\* Clone gone wrong: a new action with the payload of the original and
\* metadata of its own (Box::new(Struct::New(..)) in place of self.clone()).
CloneBare(box) ==
    [Metadata |-> Spent, Content |-> box.Content, LicenseSignal |-> FreshCell]

\* Clone gone wrong: the duplicate gets a Signal of its own (Signal::New(true)
\* in place of the clone of the Arc).
CloneOwnSignal(box) ==
    [Metadata |-> box.Metadata, Content |-> box.Content, LicenseSignal |-> FreshCell]

\* Trait::Clone: Box::new(self.clone()), the derived Clone of Struct<T>: the
\* DashMap of Metadata is copied entry by entry, Content by T::clone, and the
\* LicenseSignal by the derived Clone of Signal, which clones the Arc.
Clone(box) ==
    [Metadata |-> box.Metadata, Content |-> box.Content,
     LicenseSignal |-> box.LicenseSignal]

\* self.Life.Fate.get_int("max_retries").unwrap_or(3) as u32
ReadMaxRetries(fate) ==
    AsU32(IF fate = None THEN I64(DefaultMaxRetries) ELSE fate[1])

\* Again gone wrong: a failed license check is not worth a retry (a match on
\* the error, Err(Error::InvalidLicense(_)) => return).
RetriesExhaustedOrDenied(r, m) == GeU32(r, m) \/ Grudge = "InvalidLicense"

\* if Retries >= MaxRetries { return Err(e); }: the error itself is not read.
RetriesExhausted(r, m) == GeU32(r, m)

\* Duration::from_secs(2u64.pow(Retries) + gen_range(0..1000))
Backoff(r, j) ==
    LET p == Pow2U64(r)
        d == AddU64(p.value, j)
    IN  [overflow |-> p.overflow \/ d.overflow, value |-> d.value]

SequenceNew ==
    /\ Time = FALSE
    /\ pc = "check"
    /\ Current = None
    /\ Retries = 0
    /\ MaxRetries = <<0, 0>>
    /\ Delay = <<0, 0, 0, 0>>
    /\ Fate \in Fates
    /\ Profile \in Profiles
    /\ Script = [a \in Ids |-> 1]
    /\ Attempts = [a \in Ids |-> 0]
    /\ Outcome = [a \in Ids |-> "none"]
    /\ Owned = None
    /\ Handed = None
    /\ Spoiled = FALSE
    /\ Grudge \in Kinds
    /\ Calls = 1

\* Run gone wrong: the loop never reads the flag (loop { ... }).
RunCheckBlind ==
    /\ pc = "check"
    /\ pc' = "do_lock"
    /\ UNCHANGED <<Time, Current, Retries, MaxRetries, Delay, Fate, Profile,
                   Script, Attempts, Outcome>>
    /\ UNCHANGED prodVars
    /\ UNCHANGED boxVars
    /\ UNCHANGED <<Grudge, Calls>>
    /\ UNCHANGED <<stealVars, planVars, actVars, yellVars, drainVars, licVars>>

\* Run: while !self.Time.Get().await
RunCheck ==
    /\ pc = "check"
    /\ pc' = IF Time THEN "stopped" ELSE "do_lock"
    /\ UNCHANGED <<Time, Current, Retries, MaxRetries, Delay, Fate, Profile,
                   Script, Attempts, Outcome>>
    /\ UNCHANGED prodVars
    /\ UNCHANGED boxVars
    /\ UNCHANGED <<Grudge, Calls>>
    /\ UNCHANGED <<stealVars, planVars, actVars, yellVars, drainVars, licVars>>

\* Run: self.Work.Do(): self.Line.lock().await
RunDoLock ==
    /\ pc = "do_lock"
    /\ LineLock = None
    /\ LineLock' = Some(Driver)
    /\ pc' = "do_pop"
    /\ UNCHANGED <<Time, Current, Retries, MaxRetries, Delay, Fate, Profile,
                   Script, Attempts, Outcome>>
    /\ UNCHANGED <<Line, cpc, carg, Got, cres, Made, Given, Taken>>
    /\ UNCHANGED boxVars
    /\ UNCHANGED <<Grudge, Calls>>
    /\ UNCHANGED <<stealVars, planVars, actVars, yellVars, drainVars, licVars>>

\* Run: self.Work.Do(): .pop_front(); Some(Action) enters Again, None loops.
RunDoPop ==
    /\ pc = "do_pop"
    /\ LineLock = Some(Driver)
    /\ LET r == pop_front(Line) IN
        /\ Line' = r.rest
        /\ Taken' = IF r.value = None THEN Taken ELSE Append(Taken, r.value[1])
        /\ Current' = r.value
        /\ Owned' = IF r.value = None THEN None ELSE Some(Box(r.value[1]))
        /\ pc' = IF r.value = None THEN "check" ELSE "again"
    /\ LineLock' = None
    /\ UNCHANGED <<Time, Retries, MaxRetries, Delay, Fate, Profile,
                   Script, Attempts, Outcome>>
    /\ UNCHANGED <<cpc, carg, Got, cres, Made, Given>>
    /\ UNCHANGED <<Handed, Spoiled>>
    /\ UNCHANGED <<Grudge, Calls>>
    /\ UNCHANGED <<stealVars, planVars, actVars, yellVars, drainVars, licVars>>

\* Again: let MaxRetries = ...; let mut Retries = 0;
AgainEnter ==
    /\ pc = "again"
    /\ MaxRetries' = ReadMaxRetries(Fate)
    /\ Retries' = 0
    /\ Spoiled' = FALSE
    /\ pc' = "receive"
    /\ UNCHANGED <<Time, Current, Delay, Fate, Profile, Script, Attempts, Outcome>>
    /\ UNCHANGED prodVars
    /\ UNCHANGED <<Owned, Handed>>
    /\ UNCHANGED <<Grudge, Calls>>
    /\ UNCHANGED <<stealVars, planVars, actVars, yellVars, drainVars, licVars>>

\* Again: self.Site.Receive(Action.Clone(), &self.Life) is called.
ReceiveCall ==
    /\ pc = "receive"
    /\ Attempts' = [Attempts EXCEPT ![Current[1]] = @ + 1]
    /\ Handed' = Some(Clone(Owned[1]))
    /\ pc' = "inflight"
    /\ UNCHANGED <<Time, Current, Retries, MaxRetries, Delay, Fate, Profile,
                   Script, Outcome>>
    /\ UNCHANGED prodVars
    /\ UNCHANGED <<Owned, Spoiled>>
    /\ UNCHANGED <<Grudge, Calls>>
    /\ UNCHANGED <<stealVars, planVars, actVars, yellVars, drainVars, licVars>>

\* Site.Receive at work: the Worker owns the box it was handed, and what it
\* does to it before it answers is its own affair; here it alters one field.
ReceiveWork ==
    /\ pc = "inflight"
    /\ \A f \in Fields : Handed[1][f] # Spent
    /\ \E f \in Fields : Handed' = Some([Handed[1] EXCEPT ![f] = Spent])
    /\ UNCHANGED <<Time, pc, Current, Retries, MaxRetries, Delay, Fate, Profile,
                   Script, Attempts, Outcome>>
    /\ UNCHANGED <<Owned, Spoiled>>
    /\ UNCHANGED prodVars
    /\ UNCHANGED <<Grudge, Calls>>
    /\ UNCHANGED <<stealVars, planVars, actVars, yellVars, drainVars, licVars>>

\* The Worker's answer to the attempt in flight.
ReceiveOk == Attempts[Current[1]] = Script[Current[1]]

\* Again: Ok(_) => return Ok(()); Run goes on to its next iteration.
AgainOk ==
    /\ pc = "inflight"
    /\ ReceiveOk
    /\ Outcome' = [Outcome EXCEPT ![Current[1]] = "ok"]
    /\ Current' = None
    /\ Owned' = None
    /\ Handed' = None
    /\ Spoiled' = FALSE
    /\ pc' = "check"
    /\ UNCHANGED <<Time, Retries, MaxRetries, Delay, Fate, Profile, Script, Attempts>>
    /\ UNCHANGED prodVars
    /\ UNCHANGED <<Grudge, Calls>>
    /\ UNCHANGED <<stealVars, planVars, actVars, yellVars, drainVars, licVars>>

\* Run gone wrong: the final error ends the loop (self.Again(Action).await?).
AgainGiveUpFatal ==
    /\ pc = "inflight"
    /\ ~ReceiveOk
    /\ RetriesExhausted(Retries, MaxRetries)
    /\ Outcome' = [Outcome EXCEPT ![Current[1]] = "err"]
    /\ Current' = None
    /\ Owned' = None
    /\ Handed' = None
    /\ Spoiled' = FALSE
    /\ pc' = "stopped"
    /\ UNCHANGED <<Time, Retries, MaxRetries, Delay, Fate, Profile, Script, Attempts>>
    /\ UNCHANGED prodVars
    /\ UNCHANGED <<Grudge, Calls>>
    /\ UNCHANGED <<stealVars, planVars, actVars, yellVars, drainVars, licVars>>

\* Run gone wrong: an action that failed for good is put back at the end of
\* the queue (self.Work.Take(Action).await in the Err arm).
AgainGiveUpRequeue ==
    /\ pc = "inflight"
    /\ ~ReceiveOk
    /\ RetriesExhausted(Retries, MaxRetries)
    /\ LineLock = None
    /\ Outcome' = [Outcome EXCEPT ![Current[1]] = "err"]
    /\ Line' = Append(Line, Current[1])
    /\ Given' = Append(Given, Current[1])
    /\ Current' = None
    /\ Owned' = None
    /\ Handed' = None
    /\ Spoiled' = FALSE
    /\ pc' = "check"
    /\ UNCHANGED <<Time, Retries, MaxRetries, Delay, Fate, Profile, Script, Attempts>>
    /\ UNCHANGED <<LineLock, cpc, carg, Got, cres, Made, Taken>>
    /\ UNCHANGED <<Grudge, Calls>>
    /\ UNCHANGED <<stealVars, planVars, actVars, yellVars, drainVars, licVars>>

\* Again: Err(e) with Retries >= MaxRetries => return Err(e); Run logs the
\* error and goes on to its next iteration.
AgainGiveUp ==
    /\ pc = "inflight"
    /\ ~ReceiveOk
    /\ RetriesExhausted(Retries, MaxRetries)
    /\ Outcome' = [Outcome EXCEPT ![Current[1]] = "err"]
    /\ Current' = None
    /\ Owned' = None
    /\ Handed' = None
    /\ Spoiled' = FALSE
    /\ pc' = "check"
    /\ UNCHANGED <<Time, Retries, MaxRetries, Delay, Fate, Profile, Script, Attempts>>
    /\ UNCHANGED prodVars
    /\ UNCHANGED <<Grudge, Calls>>
    /\ UNCHANGED <<stealVars, planVars, actVars, yellVars, drainVars, licVars>>

\* Again: Err(e) otherwise => Retries += 1; the backoff is computed (a panic
\* on overflow under the debug profile) and the sleep starts. The box moved
\* into Receive went with the call.
AgainBackoff ==
    /\ pc = "inflight"
    /\ ~ReceiveOk
    /\ ~RetriesExhausted(Retries, MaxRetries)
    /\ Retries' = Retries + 1
    /\ Spoiled' = (Spoiled \/ Handed # Some(Clone(Owned[1])))
    /\ \E j \in Jitters :
        LET d == Backoff(Retries + 1, j) IN
        IF d.overflow /\ Profile = "debug"
        THEN pc' = "panicked" /\ Delay' = Delay
        ELSE pc' = "sleep" /\ Delay' = d.value
    /\ UNCHANGED <<Time, Current, MaxRetries, Fate, Profile, Script, Attempts, Outcome>>
    /\ UNCHANGED prodVars
    /\ Handed' = None
    /\ UNCHANGED Owned
    /\ UNCHANGED <<Grudge, Calls>>
    /\ UNCHANGED <<stealVars, planVars, actVars, yellVars, drainVars, licVars>>

\* Again gone wrong: the flag is read after the sleep and ends the dispatch.
AgainWakeAbort ==
    /\ pc = "sleep"
    /\ pc' = IF Time THEN "stopped" ELSE "receive"
    /\ Current' = IF Time THEN None ELSE Current
    /\ UNCHANGED <<Time, Retries, MaxRetries, Delay, Fate, Profile,
                   Script, Attempts, Outcome>>
    /\ UNCHANGED prodVars
    /\ UNCHANGED boxVars
    /\ UNCHANGED <<Grudge, Calls>>
    /\ UNCHANGED <<stealVars, planVars, actVars, yellVars, drainVars, licVars>>

\* Again gone wrong: the sleep is spent at the head of Run's loop, which
\* dequeues meanwhile (the retry spawned, Run going on).
AgainWakeAtLoop ==
    /\ pc = "sleep"
    /\ pc' = "check"
    /\ UNCHANGED <<Time, Current, Retries, MaxRetries, Delay, Fate, Profile,
                   Script, Attempts, Outcome>>
    /\ UNCHANGED prodVars
    /\ UNCHANGED boxVars
    /\ UNCHANGED <<Grudge, Calls>>
    /\ UNCHANGED <<stealVars, planVars, actVars, yellVars, drainVars, licVars>>

\* Again: sleep(Delay).await is over.
AgainWake ==
    /\ pc = "sleep"
    /\ pc' = "receive"
    /\ UNCHANGED <<Time, Current, Retries, MaxRetries, Delay, Fate, Profile,
                   Script, Attempts, Outcome>>
    /\ UNCHANGED prodVars
    /\ UNCHANGED boxVars
    /\ UNCHANGED <<Grudge, Calls>>
    /\ UNCHANGED <<stealVars, planVars, actVars, yellVars, drainVars, licVars>>

\* Run is called again on a Sequence whose Run has returned.
RunCall ==
    /\ pc = "stopped"
    /\ Calls < MaxRuns
    /\ Calls' = Calls + 1
    /\ pc' = "check"
    /\ UNCHANGED <<Time, Current, Retries, MaxRetries, Delay, Fate, Profile,
                   Script, Attempts, Outcome>>
    /\ UNCHANGED boxVars
    /\ UNCHANGED Grudge
    /\ UNCHANGED prodVars
    /\ UNCHANGED <<stealVars, planVars, actVars, yellVars, drainVars, licVars>>

\* Shutdown gone wrong: the call flips the flag (Set(!Get())).
ShutdownFlips ==
    /\ Time' = ~Time
    /\ UNCHANGED <<pc, Current, Retries, MaxRetries, Delay, Fate, Profile,
                   Script, Attempts, Outcome>>
    /\ UNCHANGED boxVars
    /\ UNCHANGED <<Grudge, Calls>>
    /\ UNCHANGED prodVars
    /\ UNCHANGED <<stealVars, planVars, actVars, yellVars, drainVars, licVars>>

\* Shutdown: self.Time.Set(true).await, from any task, at any time.
Shutdown ==
    /\ Time' = TRUE
    /\ UNCHANGED <<pc, Current, Retries, MaxRetries, Delay, Fate, Profile,
                   Script, Attempts, Outcome>>
    /\ UNCHANGED prodVars
    /\ UNCHANGED boxVars
    /\ UNCHANGED <<Grudge, Calls>>
    /\ UNCHANGED <<stealVars, planVars, actVars, yellVars, drainVars, licVars>>

\* main builds the actions, up to SeqActions of them, and hands them to Work.
MainTake ==
    \/ \E k \in Scripts : Made < SeqActions /\ CallTake(Main, k)
    \/ TakeLock(Main)
    \/ TakePush(Main)

\* The steps of the task that runs Run.
DriverNext ==
    \/ RunCheck
    \/ RunDoLock
    \/ RunDoPop
    \/ AgainEnter
    \/ ReceiveCall
    \/ AgainOk
    \/ AgainGiveUp
    \/ AgainBackoff
    \/ AgainWake

\* --------------------------------------------------- WorkerStealingQueue

\* (0..Force): the deques and the workers that own them.
Workers == 0..(Force - 1)

StealIds == 1..StealActions

\* main, as a holder of a deque's Mutex.
MainTask == Force

\* Vec::push
push(q, a) == Append(q, a)

\* Vec::pop gone wrong: the last element handed out and left in place.
last_cloned(q) ==
    IF q = <<>>
    THEN [value |-> None, rest |-> q]
    ELSE [value |-> Some(q[Len(q)]), rest |-> q]

\* Vec::pop gone wrong: the oldest element taken (Vec::remove(0)).
remove_first(q) ==
    IF q = <<>>
    THEN [value |-> None, rest |-> q]
    ELSE [value |-> Some(Head(q)), rest |-> Tail(q)]

\* Vec::pop: the last element (None on an empty Vec) and the Vec it leaves.
pop(q) ==
    IF q = <<>>
    THEN [value |-> None, rest |-> q]
    ELSE [value |-> Some(q[Len(q)]), rest |-> SubSeq(q, 1, Len(q) - 1)]

\* QueuesOther.shuffle(..): every order of the other deques.
Shuffles(w) ==
    LET others == Workers \ {w}
        n == Cardinality(others)
    IN  {p \in [1..n -> others] : \A i \in 1..n : \A j \in 1..n : p[i] = p[j] => i = j}

\* A worker inside a Do call.
InDo(w) == wpc[w] \in {"own_lock", "own_pop", "steal_lock", "steal_pop"}

StealNew ==
    /\ Queues = [w \in Workers |-> <<>>]
    /\ QueueLock = [w \in Workers |-> None]
    /\ Running = TRUE
    /\ wpc = [w \in Workers |-> "loop"]
    /\ QueuesOther = [w \in Workers |-> <<>>]
    /\ wres = [w \in Workers |-> None]
    /\ apc = "idle"
    /\ aarg = None
    /\ Dealt = 0
    /\ Ran = [a \in StealIds |-> 0]
    /\ Refilled = [w \in Workers |-> FALSE]

\* main: Queue.Assign(i % Force, Box::new(Action)) is called.
AssignCall(i) ==
    /\ apc = "idle"
    /\ Dealt < StealActions
    /\ Dealt' = Dealt + 1
    /\ aarg' = Some(<<i, Dealt + 1>>)
    /\ apc' = "lock"
    /\ UNCHANGED <<Queues, QueueLock, Running, wpc, QueuesOther, wres, Ran,
                   Refilled>>
    /\ UNCHANGED <<prodVars, seqVars, planVars, actVars, yellVars, drainVars, licVars>>

\* Assign: self.Queues[Identifier].lock().await
AssignLock ==
    /\ apc = "lock"
    /\ QueueLock[aarg[1][1]] = None
    /\ QueueLock' = [QueueLock EXCEPT ![aarg[1][1]] = Some(MainTask)]
    /\ apc' = "push"
    /\ UNCHANGED <<Queues, Running, wpc, QueuesOther, wres, aarg, Dealt, Ran,
                   Refilled>>
    /\ UNCHANGED <<prodVars, seqVars, planVars, actVars, yellVars, drainVars, licVars>>

\* Assign: .push(Action); the guard is dropped at the end of the statement.
AssignPush ==
    /\ apc = "push"
    /\ LET i == aarg[1][1]
           a == aarg[1][2]
       IN  /\ Queues' = [Queues EXCEPT ![i] = push(@, a)]
           /\ QueueLock' = [QueueLock EXCEPT ![i] = None]
    /\ Refilled' = [w \in Workers |-> Refilled[w] \/ InDo(w)]
    /\ aarg' = None
    /\ apc' = "idle"
    /\ UNCHANGED <<Running, wpc, QueuesOther, wres, Dealt, Ran>>
    /\ UNCHANGED <<prodVars, seqVars, planVars, actVars, yellVars, drainVars, licVars>>

\* main: *Running.lock().await = false
StopWorkers ==
    /\ Running
    /\ Running' = FALSE
    /\ UNCHANGED <<Queues, QueueLock, wpc, QueuesOther, wres, apc, aarg, Dealt,
                   Ran, Refilled>>
    /\ UNCHANGED <<prodVars, seqVars, planVars, actVars, yellVars, drainVars, licVars>>

\* worker_loop: while *running.lock().await; a true flag enters Do.
LoopCheck(w) ==
    /\ wpc[w] = "loop"
    /\ wpc' = [wpc EXCEPT ![w] = IF Running THEN "own_lock" ELSE "exit"]
    /\ Refilled' = [Refilled EXCEPT ![w] = FALSE]
    /\ UNCHANGED <<Queues, QueueLock, Running, QueuesOther, wres, apc, aarg,
                   Dealt, Ran>>
    /\ UNCHANGED <<prodVars, seqVars, planVars, actVars, yellVars, drainVars, licVars>>

\* Do: self.Queues[Worker].lock().await
DoLockOwn(w) ==
    /\ wpc[w] = "own_lock"
    /\ QueueLock[w] = None
    /\ QueueLock' = [QueueLock EXCEPT ![w] = Some(w)]
    /\ wpc' = [wpc EXCEPT ![w] = "own_pop"]
    /\ UNCHANGED <<Queues, Running, QueuesOther, wres, apc, aarg, Dealt, Ran,
                   Refilled>>
    /\ UNCHANGED <<prodVars, seqVars, planVars, actVars, yellVars, drainVars, licVars>>

\* Do gone wrong: an empty own deque ends the call, no other deque is tried.
DoPopOwnOnly(w) ==
    /\ wpc[w] = "own_pop"
    /\ LET r == pop(Queues[w]) IN
        /\ Queues' = [Queues EXCEPT ![w] = r.rest]
        /\ wres' = [wres EXCEPT ![w] = r.value]
    /\ QueuesOther' = [QueuesOther EXCEPT ![w] = <<>>]
    /\ wpc' = [wpc EXCEPT ![w] = "ret"]
    /\ QueueLock' = [QueueLock EXCEPT ![w] = None]
    /\ UNCHANGED <<Running, apc, aarg, Dealt, Ran, Refilled>>
    /\ UNCHANGED <<prodVars, seqVars, planVars, actVars, yellVars, drainVars, licVars>>

\* Do gone wrong: without drop(Queue), the guard of the own deque is kept
\* while the other deques are visited.
DoPopOwnHolding(w) ==
    /\ wpc[w] = "own_pop"
    /\ LET r == pop(Queues[w]) IN
        /\ Queues' = [Queues EXCEPT ![w] = r.rest]
        /\ IF r.value # None
           THEN /\ wres' = [wres EXCEPT ![w] = r.value]
                /\ QueuesOther' = [QueuesOther EXCEPT ![w] = <<>>]
                /\ wpc' = [wpc EXCEPT ![w] = "ret"]
                /\ QueueLock' = [QueueLock EXCEPT ![w] = None]
           ELSE /\ wres' = [wres EXCEPT ![w] = None]
                /\ \E p \in Shuffles(w) :
                    /\ QueuesOther' = [QueuesOther EXCEPT ![w] = p]
                    /\ wpc' = [wpc EXCEPT ![w] = IF p = <<>> THEN "ret" ELSE "steal_lock"]
                    /\ QueueLock' = [QueueLock EXCEPT ![w] = IF p = <<>> THEN None ELSE @]
    /\ UNCHANGED <<Running, apc, aarg, Dealt, Ran, Refilled>>
    /\ UNCHANGED <<prodVars, seqVars, planVars, actVars, yellVars, drainVars, licVars>>

\* Do: Queue.pop() on the own deque. Some(Action) is returned; on None the
\* guard is dropped and the other deques are shuffled (with no other deque
\* the loop is empty and None is returned).
DoPopOwn(w) ==
    /\ wpc[w] = "own_pop"
    /\ LET r == pop(Queues[w]) IN
        /\ Queues' = [Queues EXCEPT ![w] = r.rest]
        /\ IF r.value # None
           THEN /\ wres' = [wres EXCEPT ![w] = r.value]
                /\ QueuesOther' = [QueuesOther EXCEPT ![w] = <<>>]
                /\ wpc' = [wpc EXCEPT ![w] = "ret"]
           ELSE /\ wres' = [wres EXCEPT ![w] = None]
                /\ \E p \in Shuffles(w) :
                    /\ QueuesOther' = [QueuesOther EXCEPT ![w] = p]
                    /\ wpc' = [wpc EXCEPT ![w] = IF p = <<>> THEN "ret" ELSE "steal_lock"]
    /\ QueueLock' = [QueueLock EXCEPT ![w] = None]
    /\ UNCHANGED <<Running, apc, aarg, Dealt, Ran, Refilled>>
    /\ UNCHANGED <<prodVars, seqVars, planVars, actVars, yellVars, drainVars, licVars>>

\* Do: self.Queues[IdOther].lock().await
DoLockOther(w) ==
    /\ wpc[w] = "steal_lock"
    /\ QueueLock[Head(QueuesOther[w])] = None
    /\ QueueLock' = [QueueLock EXCEPT ![Head(QueuesOther[w])] = Some(w)]
    /\ wpc' = [wpc EXCEPT ![w] = "steal_pop"]
    /\ UNCHANGED <<Queues, Running, QueuesOther, wres, apc, aarg, Dealt, Ran,
                   Refilled>>
    /\ UNCHANGED <<prodVars, seqVars, planVars, actVars, yellVars, drainVars, licVars>>

\* Do: QueueOther.pop() on the victim. Some(Action) is returned; on None the
\* guard is dropped and the loop goes to the next victim, and past the last
\* one None is returned.
DoPopOther(w) ==
    /\ wpc[w] = "steal_pop"
    /\ LET v == Head(QueuesOther[w])
           r == pop(Queues[v])
           left == Tail(QueuesOther[w])
       IN  /\ Queues' = [Queues EXCEPT ![v] = r.rest]
           /\ QueueLock' = [QueueLock EXCEPT ![v] = None]
           /\ wres' = [wres EXCEPT ![w] = r.value]
           /\ IF r.value # None
              THEN /\ QueuesOther' = [QueuesOther EXCEPT ![w] = <<v>>]
                   /\ wpc' = [wpc EXCEPT ![w] = "ret"]
              ELSE /\ QueuesOther' = [QueuesOther EXCEPT ![w] = left]
                   /\ wpc' = [wpc EXCEPT ![w] = IF left = <<>> THEN "ret" ELSE "steal_lock"]
    /\ UNCHANGED <<Running, apc, aarg, Dealt, Ran, Refilled>>
    /\ UNCHANGED <<prodVars, seqVars, planVars, actVars, yellVars, drainVars, licVars>>

\* worker_loop: Some(action) => action.Execute(&context).await, whose error
\* is printed.
LoopExecute(w) ==
    /\ wpc[w] = "ret"
    /\ wres[w] # None
    /\ Ran' = [Ran EXCEPT ![wres[w][1]] = @ + 1]
    /\ wres' = [wres EXCEPT ![w] = None]
    /\ QueuesOther' = [QueuesOther EXCEPT ![w] = <<>>]
    /\ wpc' = [wpc EXCEPT ![w] = "loop"]
    /\ UNCHANGED <<Queues, QueueLock, Running, apc, aarg, Dealt, Refilled>>
    /\ UNCHANGED <<prodVars, seqVars, planVars, actVars, yellVars, drainVars, licVars>>

\* worker_loop: None => sleep(Duration::from_millis(10)).await
LoopSleep(w) ==
    /\ wpc[w] = "ret"
    /\ wres[w] = None
    /\ wpc' = [wpc EXCEPT ![w] = "loop"]
    /\ UNCHANGED <<Queues, QueueLock, Running, QueuesOther, wres, apc, aarg,
                   Dealt, Ran, Refilled>>
    /\ UNCHANGED <<prodVars, seqVars, planVars, actVars, yellVars, drainVars, licVars>>

StealNext ==
    \/ \E i \in Workers : AssignCall(i)
    \/ AssignLock
    \/ AssignPush
    \/ StopWorkers
    \/ \E w \in Workers :
        \/ LoopCheck(w)
        \/ DoLockOwn(w)
        \/ DoPopOwn(w)
        \/ DoLockOther(w)
        \/ DoPopOther(w)
        \/ LoopExecute(w)
        \/ LoopSleep(w)

\* ------------------------------- StealingWorker as the Sequence's Worker

\* StealingWorker.Id of the worker the Sequence is built with.
Site == 0

\* Again, with a StealingWorker: self.Site.Receive(Action.Clone(), ..) is
\* called, and Receive calls self.Queue.Assign(self.Id, Action).
StealReceive ==
    /\ pc = "receive"
    /\ apc = "idle"
    /\ Attempts' = [Attempts EXCEPT ![Current[1]] = @ + 1]
    /\ Handed' = Some(Clone(Owned[1]))
    /\ aarg' = Some(<<Site, Clone(Owned[1]).Content>>)
    /\ apc' = "lock"
    /\ pc' = "assign"
    /\ UNCHANGED <<Time, Current, Retries, MaxRetries, Delay, Fate, Profile,
                   Script, Outcome>>
    /\ UNCHANGED <<Owned, Spoiled>>
    /\ UNCHANGED <<Grudge, Calls>>
    /\ UNCHANGED <<Queues, QueueLock, Running, wpc, QueuesOther, wres, Dealt,
                   Ran, Refilled>>
    /\ UNCHANGED <<prodVars, planVars, actVars, yellVars, drainVars, licVars>>

\* Receive gone wrong: the action is assigned and an error is returned
\* (Err(Error::RoutingError(..)) after the Assign).
StealReceiveErr ==
    /\ pc = "assign"
    /\ apc = "idle"
    /\ Script' = [Script EXCEPT ![Current[1]] = Never]
    /\ pc' = "inflight"
    /\ UNCHANGED <<Time, Current, Retries, MaxRetries, Delay, Fate, Profile,
                   Attempts, Outcome>>
    /\ UNCHANGED boxVars
    /\ UNCHANGED <<Grudge, Calls>>
    /\ UNCHANGED <<prodVars, stealVars, planVars, actVars, yellVars, drainVars, licVars>>

\* Receive: the Assign is over; Ok(()) is the answer to this attempt.
StealReceiveOk ==
    /\ pc = "assign"
    /\ apc = "idle"
    /\ Script' = [Script EXCEPT ![Current[1]] = Attempts[Current[1]]]
    /\ pc' = "inflight"
    /\ UNCHANGED <<Time, Current, Retries, MaxRetries, Delay, Fate, Profile,
                   Attempts, Outcome>>
    /\ UNCHANGED boxVars
    /\ UNCHANGED <<Grudge, Calls>>
    /\ UNCHANGED <<prodVars, stealVars, planVars, actVars, yellVars, drainVars, licVars>>

\* The steps of the task that runs Run when the Worker is a StealingWorker,
\* the error arms of Again left out.
RouteDriverNext ==
    \/ RunCheck
    \/ RunDoLock
    \/ RunDoPop
    \/ AgainEnter
    \/ StealReceive
    \/ AssignLock
    \/ AssignPush
    \/ StealReceiveOk
    \/ AgainOk

\* The pool of worker loops, the loop of the Site's own id left out: what it
\* would take off its deque the other loops take by stealing.
PoolNext ==
    \E w \in Workers \ {Site} :
        \/ LoopCheck(w)
        \/ DoLockOwn(w)
        \/ DoPopOwn(w)
        \/ DoLockOther(w)
        \/ DoPopOther(w)
        \/ LoopExecute(w)
        \/ LoopSleep(w)

\* ------------------------------------------------------------- Formality

\* The operation names and the functions the hosts register.
Names == {"Read", "Write", "Delete"}

Shapes == {"in:path", "in:path,content"}

Bodies == {"f", "g"}

\* The record of one call: its operation, name and function arguments, its
\* result, and the two tables as the call found them.
Call(op, name, given, ok, value) ==
    [op |-> op, name |-> name, given |-> given, ok |-> ok, value |-> value,
     before |-> <<Signature, Function>>]

\* New: Self { Signature: DashMap::new(), Function: DashMap::new() }
FormalityNew ==
    /\ Signature = [n \in Names |-> None]
    /\ Function = [n \in Names |-> None]
    /\ Answer = Call("New", None, None, TRUE, None)

\* DashMap::contains_key
contains_key(map, n) == map[n] # None

\* DashMap::remove: the entry is taken out of the map and handed over.
remove(map, n) == [value |-> map[n], map |-> [map EXCEPT ![n] = None]]

\* DashMap::get: a reference to the entry, the map as it was.
get(map, n) == [value |-> map[n], map |-> map]

\* Sign: self.Signature.insert(Signature.Name.clone(), Signature)
Sign(n, shape) ==
    /\ Signature' = [Signature EXCEPT ![n] = Some(shape)]
    /\ Function' = Function
    /\ Answer' = Call("Sign", Some(n), None, TRUE, None)
    /\ UNCHANGED <<prodVars, seqVars, stealVars, actVars, yellVars, drainVars, licVars>>

\* Add gone wrong: the signature is not looked up.
AddUnguarded(n, f) ==
    /\ Function' = [Function EXCEPT ![n] = Some(f)]
    /\ Signature' = Signature
    /\ Answer' = Call("Add", Some(n), Some(f), TRUE, None)
    /\ UNCHANGED <<prodVars, seqVars, stealVars, actVars, yellVars, drainVars, licVars>>

\* Add gone wrong: the guard reads the function table where it should read
\* the signature table.
AddGuardWrongTable(n, f) ==
    /\ IF ~contains_key(Function, n) /\ contains_key(Signature, n)
       THEN /\ Function' = Function
            /\ Answer' = Call("Add", Some(n), Some(f), FALSE, None)
       ELSE /\ Function' = [Function EXCEPT ![n] = Some(f)]
            /\ Answer' = Call("Add", Some(n), Some(f), TRUE, None)
    /\ Signature' = Signature
    /\ UNCHANGED <<prodVars, seqVars, stealVars, actVars, yellVars, drainVars, licVars>>

\* Add: Err("No signature found ...") when the name has no signature, else
\* self.Function.insert(Name.to_string(), Box::new(..)) and Ok(self).
Add(n, f) ==
    /\ IF ~contains_key(Signature, n)
       THEN /\ Function' = Function
            /\ Answer' = Call("Add", Some(n), Some(f), FALSE, None)
       ELSE /\ Function' = [Function EXCEPT ![n] = Some(f)]
            /\ Answer' = Call("Add", Some(n), Some(f), TRUE, None)
    /\ Signature' = Signature
    /\ UNCHANGED <<prodVars, seqVars, stealVars, actVars, yellVars, drainVars, licVars>>

\* Remove: self.Function.get(Name), the lookup by name.
Remove(n) ==
    /\ Answer' = Call("Remove", Some(n), None, TRUE, get(Function, n).value)
    /\ Function' = get(Function, n).map
    /\ Signature' = Signature
    /\ UNCHANGED <<prodVars, seqVars, stealVars, actVars, yellVars, drainVars, licVars>>

PlanNext ==
    \E n \in Names :
        \/ \E shape \in Shapes : Sign(n, shape)
        \/ \E f \in Bodies : Add(n, f)
        \/ Remove(n)

\* ---------------------------------------------------------------- Action

\* serde_json::Value, as far as Execute looks into it: a string, a number
\* (its text), an array (the strings its items give under
\* as_str().unwrap_or("")) or an object (its keys and string values, in turn).
JString(s) == [kind |-> "string", text |-> s, items |-> <<>>]

JNumber(t) == [kind |-> "number", text |-> t, items |-> <<>>]

JArray(items) == [kind |-> "array", text |-> "", items |-> items]

JObject(pairs) == [kind |-> "object", text |-> "", items |-> pairs]

\* Value::as_str, Value::as_u64, Value::as_array
as_str(v) == IF v.kind = "string" THEN Some(v.text) ELSE None

as_u64(v) == IF v.kind = "number" THEN Some(v.text) ELSE None

as_array(v) == IF v.kind = "array" THEN Some(v.items) ELSE None

\* The string stored under a key of an object, or None.
Field(v, key) ==
    IF v.kind = "object" /\ \E i \in 1..Len(v.items) : i % 2 = 1 /\ v.items[i] = key
    THEN Some(v.items[(CHOOSE i \in 1..Len(v.items) : i % 2 = 1 /\ v.items[i] = key) + 1])
    ELSE None

\* The keys Execute reads, and License, which New writes.
Keys == {"ActionType", "License", "CommandingOfficer", "Delay", "Hooks", "NextAction"}

\* Context.Span, the hook table: LogStart and Audit return Ok, Deny returns
\* an error; any other name has no hook.
Span == [h \in {"LogStart", "Audit", "Deny"} |-> IF h = "Deny" THEN "err" ELSE "ok"]

\* The Hooks arrays the hosts attach.
HookLists ==
    {<<"LogStart", "Audit">>, <<"Ghost", "LogStart">>,
     <<"LogStart", "Deny", "Audit">>, <<"Audit", "Audit">>}

\* The (Key, Value) arguments of the WithMetadata calls.
Decorations ==
    {<<"ActionType", JNumber("7")>>,
     <<"CommandingOfficer", JObject(<<"License", "valid">>)>>,
     <<"CommandingOfficer", JObject(<<"License", "expired">>)>>,
     <<"Delay", JNumber("1")>>,
     <<"Hooks", JString("LogStart")>>,
     <<"NextAction", JObject(<<"ActionType", "Read">>)>>}
    \cup {<<"Hooks", JArray(h)>> : h \in HookLists}

\* A stage event, and the values Execute returns.
Event(stage, at, name) == [stage |-> stage, at |-> at, name |-> name]

Ok == [kind |-> "Ok", text |-> "", name |-> "", stage |-> "return", at |-> 0]

Err(kind, text, name, stage, at) ==
    [kind |-> kind, text |-> text, name |-> name, stage |-> stage, at |-> at]

\* No action has been built.
ActionNone ==
    /\ Metadata = [k \in Keys |-> None]
    /\ LicenseSignal = TRUE
    /\ xpc = "none"
    /\ ActionType = None
    /\ HookAt = 0
    /\ Events = <<>>
    /\ Verdict = None
    /\ LicenseAtCall = None
    /\ LicenseRead = None

\* New: Metadata holds ActionType and License, LicenseSignal is Signal::New(true).
ActionNew(t) ==
    /\ xpc = "none"
    /\ Metadata' = [k \in Keys |->
                      IF k = "ActionType" THEN Some(JString(t))
                      ELSE IF k = "License" THEN Some(JString("valid"))
                      ELSE None]
    /\ LicenseSignal' = TRUE
    /\ xpc' = "built"
    /\ UNCHANGED <<ActionType, HookAt, Events, Verdict, LicenseAtCall, LicenseRead>>
    /\ UNCHANGED <<prodVars, seqVars, stealVars, planVars, yellVars, drainVars, licVars>>

\* WithMetadata gone wrong: the entry is put into a Vector of its own
\* (self.Metadata = Vector::New() before the Insert).
WithMetadataAfresh(key, value) ==
    /\ xpc = "built"
    /\ Metadata' = [k \in Keys |-> IF k = key THEN Some(value) ELSE None]
    /\ UNCHANGED <<LicenseSignal, xpc, ActionType, HookAt, Events, Verdict,
                   LicenseAtCall, LicenseRead>>
    /\ UNCHANGED <<prodVars, seqVars, stealVars, planVars, yellVars, drainVars, licVars>>

\* WithMetadata: self.Metadata.Insert(Key.to_string(), Value)
WithMetadata(key, value) ==
    /\ xpc = "built"
    /\ Metadata' = [Metadata EXCEPT ![key] = Some(value)]
    /\ UNCHANGED <<LicenseSignal, xpc, ActionType, HookAt, Events, Verdict,
                   LicenseAtCall, LicenseRead>>
    /\ UNCHANGED <<prodVars, seqVars, stealVars, planVars, yellVars, drainVars, licVars>>

\* Signal::Set on the action's LicenseSignal, by any holder of the action or
\* of a clone of it, at any time.
SetLicense(b) ==
    /\ xpc # "none"
    /\ LicenseSignal' = b
    /\ UNCHANGED <<Metadata, xpc, ActionType, HookAt, Events, Verdict,
                   LicenseAtCall, LicenseRead>>
    /\ UNCHANGED <<prodVars, seqVars, stealVars, planVars, yellVars, drainVars, licVars>>

\* Execute is called.
ExecuteCall ==
    /\ xpc = "built"
    /\ xpc' = "resolve"
    /\ LicenseAtCall' = Some(LicenseSignal)
    /\ UNCHANGED <<Metadata, LicenseSignal, ActionType, HookAt, Events, Verdict,
                   LicenseRead>>
    /\ UNCHANGED <<prodVars, seqVars, stealVars, planVars, yellVars, drainVars, licVars>>

\* Execute returns r.
Return(r) == xpc' = "returned" /\ Verdict' = Some(r)

\* Execute: self.Metadata.Get("ActionType") .ok_or_else(..)? .as_str()
\* .ok_or_else(..)? .to_string()
Resolve ==
    /\ xpc = "resolve"
    /\ Events' = Append(Events, Event("resolve", 0, ""))
    /\ LET v == Metadata["ActionType"] IN
        IF v = None
        THEN /\ Return(Err("ExecutionError", "ActionType not found", "", "resolve", 0))
             /\ ActionType' = ActionType
        ELSE IF as_str(v[1]) = None
        THEN /\ Return(Err("ExecutionError", "ActionType is not a string", "", "resolve", 0))
             /\ ActionType' = ActionType
        ELSE /\ ActionType' = as_str(v[1])
             /\ xpc' = "license"
             /\ Verdict' = Verdict
    /\ UNCHANGED <<Metadata, LicenseSignal, HookAt, LicenseAtCall, LicenseRead>>
    /\ UNCHANGED <<prodVars, seqVars, stealVars, planVars, yellVars, drainVars, licVars>>

\* CheckLicense gone wrong: the Signal is read and not acted on.
CheckLicenseIgnored ==
    /\ xpc = "license"
    /\ Events' = Append(Events, Event("license", 0, ""))
    /\ LicenseRead' = Some(LicenseSignal)
    /\ xpc' = "delay"
    /\ UNCHANGED <<Metadata, LicenseSignal, ActionType, HookAt, Verdict, LicenseAtCall>>
    /\ UNCHANGED <<prodVars, seqVars, stealVars, planVars, yellVars, drainVars, licVars>>

\* Execute gone wrong: the delay stage is left out after the license check.
CheckLicenseThenHooks ==
    /\ xpc = "license"
    /\ Events' = Append(Events, Event("license", 0, ""))
    /\ LicenseRead' = Some(LicenseSignal)
    /\ IF ~LicenseSignal
       THEN Return(Err("InvalidLicense", "Invalid action license", "", "license", 0))
       ELSE xpc' = "hooks" /\ Verdict' = Verdict
    /\ UNCHANGED <<Metadata, LicenseSignal, ActionType, HookAt, LicenseAtCall>>
    /\ UNCHANGED <<prodVars, seqVars, stealVars, planVars, yellVars, drainVars, licVars>>

\* CheckLicense: if !self.LicenseSignal.Get().await { return Err(InvalidLicense) }
CheckLicense ==
    /\ xpc = "license"
    /\ Events' = Append(Events, Event("license", 0, ""))
    /\ LicenseRead' = Some(LicenseSignal)
    /\ IF ~LicenseSignal
       THEN Return(Err("InvalidLicense", "Invalid action license", "", "license", 0))
       ELSE xpc' = "delay" /\ Verdict' = Verdict
    /\ UNCHANGED <<Metadata, LicenseSignal, ActionType, HookAt, LicenseAtCall>>
    /\ UNCHANGED <<prodVars, seqVars, stealVars, planVars, yellVars, drainVars, licVars>>

\* The seconds HandleDelay sleeps: Delay.as_u64().unwrap_or(0), "" with no Delay.
DelaySeconds ==
    LET v == Metadata["Delay"] IN
    IF v = None THEN ""
    ELSE IF as_u64(v[1]) = None THEN "0" ELSE as_u64(v[1])[1]

\* HandleDelay: the sleep, when Delay is present; Ok(()) always.
HandleDelay ==
    /\ xpc = "delay"
    /\ Events' = Append(Events, Event("delay", 0, DelaySeconds))
    /\ xpc' = "hooks"
    /\ UNCHANGED <<Metadata, LicenseSignal, ActionType, HookAt, Verdict,
                   LicenseAtCall, LicenseRead>>
    /\ UNCHANGED <<prodVars, seqVars, stealVars, planVars, yellVars, drainVars, licVars>>

\* The names ExecuteHooks walks: Hooks.as_array().unwrap_or(&Vec::new()),
\* nothing with no Hooks entry.
HookList ==
    LET v == Metadata["Hooks"] IN
    IF v = None THEN <<>>
    ELSE IF as_array(v[1]) = None THEN <<>> ELSE as_array(v[1])[1]

\* ExecuteHooks: self.Metadata.Get("Hooks"), the loop begins.
HooksEnter ==
    /\ xpc = "hooks"
    /\ Events' = Append(Events, Event("hooks", 0, ""))
    /\ HookAt' = 1
    /\ xpc' = "hook"
    /\ UNCHANGED <<Metadata, LicenseSignal, ActionType, Verdict, LicenseAtCall,
                   LicenseRead>>
    /\ UNCHANGED <<prodVars, seqVars, stealVars, planVars, yellVars, drainVars, licVars>>

\* ExecuteHooks gone wrong: a name without a hook ends the loop (break).
HookStepStopsAtMissing ==
    /\ xpc = "hook"
    /\ HookAt <= Len(HookList)
    /\ LET name == HookList[HookAt] IN
        IF name \in DOMAIN Span
        THEN /\ Events' = Append(Events, Event("hook", HookAt, name))
             /\ IF Span[name] = "err"
                THEN /\ Return(Err("ExecutionError", "hook failed", name, "hook", HookAt))
                     /\ HookAt' = HookAt
                ELSE /\ HookAt' = HookAt + 1
                     /\ UNCHANGED <<xpc, Verdict>>
        ELSE /\ HookAt' = Len(HookList) + 1
             /\ UNCHANGED <<xpc, Verdict, Events>>
    /\ UNCHANGED <<Metadata, LicenseSignal, ActionType, LicenseAtCall, LicenseRead>>
    /\ UNCHANGED <<prodVars, seqVars, stealVars, planVars, yellVars, drainVars, licVars>>

\* ExecuteHooks gone wrong: the hook's result is dropped (HookFn();).
HookStepIgnoresError ==
    /\ xpc = "hook"
    /\ HookAt <= Len(HookList)
    /\ LET name == HookList[HookAt] IN
        /\ Events' = IF name \in DOMAIN Span
                     THEN Append(Events, Event("hook", HookAt, name))
                     ELSE Events
        /\ HookAt' = HookAt + 1
    /\ UNCHANGED <<Metadata, LicenseSignal, xpc, ActionType, Verdict,
                   LicenseAtCall, LicenseRead>>
    /\ UNCHANGED <<prodVars, seqVars, stealVars, planVars, yellVars, drainVars, licVars>>

\* ExecuteHooks, one turn of the loop: if let Some(HookFn) =
\* Context.Span.get(..) { HookFn()?; }
HookStep ==
    /\ xpc = "hook"
    /\ HookAt <= Len(HookList)
    /\ LET name == HookList[HookAt] IN
        IF name \in DOMAIN Span
        THEN /\ Events' = Append(Events, Event("hook", HookAt, name))
             /\ IF Span[name] = "err"
                THEN /\ Return(Err("ExecutionError", "hook failed", name, "hook", HookAt))
                     /\ HookAt' = HookAt
                ELSE /\ HookAt' = HookAt + 1
                     /\ UNCHANGED <<xpc, Verdict>>
        ELSE /\ HookAt' = HookAt + 1
             /\ UNCHANGED <<xpc, Verdict, Events>>
    /\ UNCHANGED <<Metadata, LicenseSignal, ActionType, LicenseAtCall, LicenseRead>>
    /\ UNCHANGED <<prodVars, seqVars, stealVars, planVars, yellVars, drainVars, licVars>>

\* ExecuteHooks: the loop is over, Ok(()).
HooksLeave ==
    /\ xpc = "hook"
    /\ HookAt > Len(HookList)
    /\ xpc' = "function"
    /\ UNCHANGED <<Metadata, LicenseSignal, ActionType, HookAt, Events, Verdict,
                   LicenseAtCall, LicenseRead>>
    /\ UNCHANGED <<prodVars, seqVars, stealVars, planVars, yellVars, drainVars, licVars>>

\* The results a registered function gives.
FunctionResults == {"ok", "err"}

\* ExecuteFunction gone wrong: a missing function is passed over in silence.
ExecuteFunctionSilent ==
    /\ xpc = "function"
    /\ LET found == Function[ActionType[1]] IN
        IF found = None
        THEN /\ xpc' = "next"
             /\ UNCHANGED <<Events, Verdict>>
        ELSE /\ Events' = Append(Events, Event("function", 0, found[1]))
             /\ \E out \in FunctionResults :
                    IF out = "err"
                    THEN Return(Err("ExecutionError", "function failed", found[1], "function", 0))
                    ELSE xpc' = "next" /\ Verdict' = Verdict
    /\ UNCHANGED <<Metadata, LicenseSignal, ActionType, HookAt, LicenseAtCall, LicenseRead>>
    /\ UNCHANGED <<prodVars, seqVars, stealVars, planVars, yellVars, drainVars, licVars>>

\* ExecuteFunction: self.Plan.Remove(ActionType), the function called with
\* Argument() and its value given to Result(); without a function,
\* Err(ExecutionError("No function found for action type: {ActionType}")).
ExecuteFunction ==
    /\ xpc = "function"
    /\ LET found == get(Function, ActionType[1]).value IN
        IF found = None
        THEN /\ Return(Err("ExecutionError", "No function found for action type",
                           ActionType[1], "function", 0))
             /\ Events' = Events
        ELSE /\ Events' = Append(Events, Event("function", 0, found[1]))
             /\ \E out \in FunctionResults :
                    IF out = "err"
                    THEN Return(Err("ExecutionError", "function failed", found[1], "function", 0))
                    ELSE xpc' = "next" /\ Verdict' = Verdict
    /\ Function' = get(Function, ActionType[1]).map
    /\ UNCHANGED <<Signature, Answer>>
    /\ UNCHANGED <<Metadata, LicenseSignal, ActionType, HookAt, LicenseAtCall, LicenseRead>>
    /\ UNCHANGED <<prodVars, seqVars, stealVars, yellVars, drainVars, licVars>>

\* HandleNextAction: with a NextAction entry, serde_json::from_value calls
\* Deserialize for Struct<T>, which is unimplemented!(): the task panics.
\* Without the entry, Ok(()) and Execute returns Ok(()).
HandleNextAction ==
    /\ xpc = "next"
    /\ Events' = Append(Events, Event("next", 0, ""))
    /\ IF Metadata["NextAction"] # None
       THEN xpc' = "panicked" /\ Verdict' = Verdict
       ELSE Return(Ok)
    /\ UNCHANGED <<Metadata, LicenseSignal, ActionType, HookAt, LicenseAtCall, LicenseRead>>
    /\ UNCHANGED <<prodVars, seqVars, stealVars, planVars, yellVars, drainVars, licVars>>

\* A host builds an action, decorates it, and calls Execute on it, while the
\* license Signal may be set from elsewhere.
ActionNext ==
    \/ \E t \in Names : ActionNew(t)
    \/ \E d \in Decorations : WithMetadata(d[1], d[2])
    \/ \E b \in BOOLEAN : SetLicense(b)
    \/ ExecuteCall
    \/ Resolve
    \/ CheckLicense
    \/ HandleDelay
    \/ HooksEnter
    \/ HookStep
    \/ HooksLeave
    \/ ExecuteFunction
    \/ HandleNextAction

\* The registry the actions share (Arc<Formality>), as built by Sign("Read"),
\* Sign("Write") and Add("Read", f): Write is signed and has no function,
\* Delete is not signed.
FormalityBuilt ==
    /\ Signature = [n \in Names |->
                      IF n \in {"Read", "Write"} THEN Some("in:path") ELSE None]
    /\ Function = [n \in Names |-> IF n = "Read" THEN Some("f") ELSE None]
    /\ Answer = [op |-> "Add", name |-> Some("Read"), given |-> Some("f"),
                 ok |-> TRUE, value |-> None,
                 before |-> <<Signature, [n \in Names |-> None]>>]

\* ------------------------------------------------------------------ Yell
\* The remote bridge (src/Source/Fn/Job/Yell.rs) between a WebSocket and the
\* Work queue of the Job workers (src/Source/Struct/Job/Work.rs), with one
\* worker loop (src/Source/Fn/Job.rs) at the other end of the queue.

\* The holders of Work's Mutex.
Bridge == "bridge"

Labourer == "worker"

\* enum Action { Read { Path }, Write { Path, Content } }: the fields serde
\* requires of each variant.
Variants == [Read |-> {"Path"}, Write |-> {"Path", "Content"}]

\* The text of a frame: whether it is JSON at all, the variant its outer
\* object names and the fields it gives; n, the frame's number, is its Path.
Text(syntax, variant, fields, n) ==
    [syntax |-> syntax, variant |-> variant, fields |-> fields, path |-> n]

\* The texts the peer sends as frame n: the two variants, a Read with a field
\* more than the variant has, a Write without its Content, a variant the enum
\* does not have, and a text that is not JSON.
Texts(n) ==
    { Text(TRUE, "Read", {"Path"}, n),
      Text(TRUE, "Write", {"Path", "Content"}, n),
      Text(TRUE, "Read", {"Path", "Extra"}, n),
      Text(TRUE, "Write", {"Path"}, n),
      Text(TRUE, "Delete", {"Path"}, n),
      Text(FALSE, "", {}, n) }

\* serde_json::from_str::<Action>(&text): Some(action) for Ok, None for Err.
\* The derived Deserialize takes the variant named by the outer object,
\* requires each of its fields and passes over the fields it does not know.
from_str(text) ==
    IF ~text.syntax THEN None
    ELSE IF text.variant \notin DOMAIN Variants THEN None
    ELSE IF ~(Variants[text.variant] \subseteq text.fields) THEN None
    ELSE Some([Variant |-> text.variant, Path |-> text.path])

\* An item of the stream: Ok(Message::Text(text)), Ok(another Message) or Err.
Item(ok, kind, text) == [ok |-> ok, kind |-> kind, text |-> text]

\* What Read.next() can yield as frame n.
Items(n) ==
    { Item(TRUE, "Text", Some(t)) : t \in Texts(n) }
        \cup { Item(TRUE, "Binary", None),
               Item(TRUE, "Close", None),
               Item(FALSE, "Err", None) }

\* if let Ok(Message::Text(text)) = Shout { if let Ok(Action) = from_str(..)
Accepted(item) ==
    IF item.ok /\ item.kind = "Text" THEN from_str(item.text[1]) ELSE None

\* Vec::pop gone wrong: the element at the front is taken (Vec::remove(0),
\* the order of a queue).
vec_take_front(q) ==
    IF q = <<>>
    THEN [value |-> None, rest |-> q]
    ELSE [value |-> Some(Head(q)), rest |-> Tail(q)]

\* Vec::pop: the value returned (None on an empty Vec) and the Vec it leaves.
vec_pop(q) ==
    IF q = <<>>
    THEN [value |-> None, rest |-> q]
    ELSE [value |-> Some(q[Len(q)]), rest |-> SubSeq(q, 1, Len(q) - 1)]

\* Site.Receive(Action) of the Worker run here: a Read succeeds, a Write fails.
Receive(a) ==
    [Action |-> a, Result |-> IF a.Variant = "Read" THEN "Ok" ELSE "Err"]

\* Work::Fn(), an open socket, the channel of results with both ends alive,
\* the bridge at its select! and the worker at the top of its loop.
YellNew ==
    /\ Heard = 0
    /\ ReadOpen = TRUE
    /\ Last = None
    /\ JobQueue = <<>>
    /\ JobLock = None
    /\ ypc = "select"
    /\ yarg = None
    /\ Receipt = <<>>
    /\ ApprovalOpen = TRUE
    /\ ReceiptAlive = TRUE
    /\ Sent = <<>>
    /\ jpc = "execute_lock"
    /\ jarg = None
    /\ Recvd = <<>>
    /\ Took = <<>>

\* The peer closes the socket: Read.next() yields None from now on.
ReadEnd ==
    /\ ReadOpen
    /\ ReadOpen' = FALSE
    /\ UNCHANGED <<Heard, Last, JobQueue, JobLock, ypc, yarg, Receipt,
                   ApprovalOpen, ReceiptAlive, Sent, jpc, jarg>>
    /\ UNCHANGED <<Recvd, Took>>
    /\ UNCHANGED <<prodVars, seqVars, stealVars, planVars, actVars, drainVars, licVars>>

\* The inbound branch gone wrong: a frame that is not an Action ends the
\* bridge (let Action = serde_json::from_str(..)?; at the top of the branch).
SelectInboundStrict ==
    /\ ypc = "select"
    /\ ReadOpen
    /\ Heard < MaxFrames
    /\ \E item \in Items(Heard + 1) :
        /\ Last' = Some(item)
        /\ ReadOpen' = item.ok
        /\ yarg' = Accepted(item)
        /\ ypc' = IF Accepted(item) = None THEN "done" ELSE "assign_lock"
    /\ Heard' = Heard + 1
    /\ UNCHANGED <<JobQueue, JobLock, Receipt, ApprovalOpen, ReceiptAlive,
                   Sent, jpc, jarg>>
    /\ UNCHANGED <<Recvd, Took>>
    /\ UNCHANGED <<prodVars, seqVars, stealVars, planVars, actVars, drainVars, licVars>>

\* select!: Some(Shout) = Read.next(): a text frame that parses goes on to
\* Work.Assign; any other item is passed over and the loop comes back to the
\* select!. The stream ends with the item that is an error.
SelectInbound ==
    /\ ypc = "select"
    /\ ReadOpen
    /\ Heard < MaxFrames
    /\ \E item \in Items(Heard + 1) :
        /\ Last' = Some(item)
        /\ ReadOpen' = item.ok
        /\ yarg' = Accepted(item)
        /\ ypc' = IF Accepted(item) = None THEN "select" ELSE "assign_lock"
    /\ Heard' = Heard + 1
    /\ UNCHANGED <<JobQueue, JobLock, Receipt, ApprovalOpen, ReceiptAlive,
                   Sent, jpc, jarg>>
    /\ UNCHANGED <<Recvd, Took>>
    /\ UNCHANGED <<prodVars, seqVars, stealVars, planVars, actVars, drainVars, licVars>>

\* Work.Assign: self.Queue.lock().await
YellAssignLock ==
    /\ ypc = "assign_lock"
    /\ JobLock = None
    /\ JobLock' = Some(Bridge)
    /\ ypc' = "assign_push"
    /\ UNCHANGED <<Heard, ReadOpen, Last, JobQueue, yarg, Receipt,
                   ApprovalOpen, ReceiptAlive, Sent, jpc, jarg>>
    /\ UNCHANGED <<Recvd, Took>>
    /\ UNCHANGED <<prodVars, seqVars, stealVars, planVars, actVars, drainVars, licVars>>

\* Work.Assign: .push(Action); the guard is dropped and the loop comes back
\* to the select!.
YellAssignPush ==
    /\ ypc = "assign_push"
    /\ JobLock = Some(Bridge)
    /\ JobQueue' = Append(JobQueue, yarg[1])
    /\ JobLock' = None
    /\ yarg' = None
    /\ ypc' = "select"
    /\ UNCHANGED <<Heard, ReadOpen, Last, Receipt, ApprovalOpen, ReceiptAlive,
                   Sent, jpc, jarg>>
    /\ UNCHANGED <<Recvd, Took>>
    /\ UNCHANGED <<prodVars, seqVars, stealVars, planVars, actVars, drainVars, licVars>>

\* The outbound branch gone wrong: the result of Write.send is dropped (let _ =
\* Write.send(..).await;) and the loop goes on after a send that failed.
SelectOutboundDeaf ==
    /\ ypc = "select"
    /\ Receipt # <<>>
    /\ Receipt' = Tail(Receipt)
    /\ Recvd' = Append(Recvd, Head(Receipt))
    /\ UNCHANGED Took
    /\ \E sent \in BOOLEAN :
        Sent' = IF sent THEN Append(Sent, Head(Receipt)) ELSE Sent
    /\ UNCHANGED <<Heard, ReadOpen, Last, JobQueue, JobLock, ypc, yarg,
                   ApprovalOpen, ReceiptAlive, jpc, jarg>>
    /\ UNCHANGED <<prodVars, seqVars, stealVars, planVars, actVars, drainVars, licVars>>

\* select!: Some(Shout) = Receipt.lock().await.recv().await, then Write.send
\* of its serialized form: sent, or the send fails and the loop breaks. The
\* bridge that ends may have held the last Arc of the receiver.
SelectOutbound ==
    /\ ypc = "select"
    /\ Receipt # <<>>
    /\ Receipt' = Tail(Receipt)
    /\ Recvd' = Append(Recvd, Head(Receipt))
    /\ UNCHANGED Took
    /\ \E sent \in BOOLEAN :
        IF sent
        THEN /\ Sent' = Append(Sent, Head(Receipt))
             /\ ypc' = "select"
             /\ UNCHANGED ReceiptAlive
        ELSE /\ Sent' = Sent
             /\ ypc' = "done"
             /\ ReceiptAlive' \in BOOLEAN
    /\ UNCHANGED <<Heard, ReadOpen, Last, JobQueue, JobLock, yarg,
                   ApprovalOpen, jpc, jarg>>
    /\ UNCHANGED <<prodVars, seqVars, stealVars, planVars, actVars, drainVars, licVars>>

\* select!: else => break: the stream has ended and the channel is closed
\* and empty, so both branches are disabled.
SelectElse ==
    /\ ypc = "select"
    /\ ~ReadOpen
    /\ Receipt = <<>>
    /\ ~ApprovalOpen
    /\ ypc' = "done"
    /\ ReceiptAlive' \in BOOLEAN
    /\ UNCHANGED <<Heard, ReadOpen, Last, JobQueue, JobLock, yarg, Receipt,
                   ApprovalOpen, Sent, jpc, jarg>>
    /\ UNCHANGED <<Recvd, Took>>
    /\ UNCHANGED <<prodVars, seqVars, stealVars, planVars, actVars, drainVars, licVars>>

\* Job::Fn: Work.Execute(): self.Queue.lock().await
JobExecuteLock ==
    /\ jpc = "execute_lock"
    /\ JobLock = None
    /\ JobLock' = Some(Labourer)
    /\ jpc' = "execute_pop"
    /\ UNCHANGED <<Heard, ReadOpen, Last, JobQueue, ypc, yarg, Receipt,
                   ApprovalOpen, ReceiptAlive, Sent, jarg>>
    /\ UNCHANGED <<Recvd, Took>>
    /\ UNCHANGED <<prodVars, seqVars, stealVars, planVars, actVars, drainVars, licVars>>

\* Job::Fn gone wrong: an empty queue ends the loop (else { break; }).
JobExecutePopOrLeave ==
    /\ jpc = "execute_pop"
    /\ JobLock = Some(Labourer)
    /\ LET r == vec_pop(JobQueue) IN
        /\ JobQueue' = r.rest
        /\ jarg' = r.value
        /\ Took' = IF r.value = None THEN Took ELSE Append(Took, r.value[1])
        /\ jpc' = IF r.value = None THEN "done" ELSE "receive"
    /\ JobLock' = None
    /\ UNCHANGED <<Heard, ReadOpen, Last, ypc, yarg, Receipt, ApprovalOpen,
                   ReceiptAlive, Sent>>
    /\ UNCHANGED Recvd
    /\ UNCHANGED <<prodVars, seqVars, stealVars, planVars, actVars, drainVars, licVars>>

\* Job::Fn: Work.Execute(): .pop(); Some(Action) goes to the Worker, None to
\* the sleep.
JobExecutePop ==
    /\ jpc = "execute_pop"
    /\ JobLock = Some(Labourer)
    /\ LET r == vec_pop(JobQueue) IN
        /\ JobQueue' = r.rest
        /\ jarg' = r.value
        /\ Took' = IF r.value = None THEN Took ELSE Append(Took, r.value[1])
        /\ jpc' = IF r.value = None THEN "sleep" ELSE "receive"
    /\ JobLock' = None
    /\ UNCHANGED <<Heard, ReadOpen, Last, ypc, yarg, Receipt, ApprovalOpen,
                   ReceiptAlive, Sent>>
    /\ UNCHANGED Recvd
    /\ UNCHANGED <<prodVars, seqVars, stealVars, planVars, actVars, drainVars, licVars>>

\* Job::Fn: Approval.send(Site.Receive(Action).await): the result is queued,
\* or the receiver is gone and the loop breaks, dropping Approval.
JobReceive ==
    /\ jpc = "receive"
    /\ IF ReceiptAlive
       THEN /\ Receipt' = Append(Receipt, Receive(jarg[1]))
            /\ jpc' = "execute_lock"
            /\ UNCHANGED ApprovalOpen
       ELSE /\ Receipt' = Receipt
            /\ jpc' = "done"
            /\ ApprovalOpen' = FALSE
    /\ jarg' = None
    /\ UNCHANGED <<Heard, ReadOpen, Last, JobQueue, JobLock, ypc, yarg,
                   ReceiptAlive, Sent>>
    /\ UNCHANGED <<Recvd, Took>>
    /\ UNCHANGED <<prodVars, seqVars, stealVars, planVars, actVars, drainVars, licVars>>

\* Job::Fn: the task ends inside Site.Receive (the Worker panics): Approval,
\* the only sender, is dropped with it.
JobPanic ==
    /\ jpc = "receive"
    /\ jpc' = "panicked"
    /\ ApprovalOpen' = FALSE
    /\ UNCHANGED <<Heard, ReadOpen, Last, JobQueue, JobLock, ypc, yarg,
                   Receipt, ReceiptAlive, Sent, jarg>>
    /\ UNCHANGED <<Recvd, Took>>
    /\ UNCHANGED <<prodVars, seqVars, stealVars, planVars, actVars, drainVars, licVars>>

\* Job::Fn: tokio::time::sleep(100 ms) is over.
JobWake ==
    /\ jpc = "sleep"
    /\ jpc' = "execute_lock"
    /\ UNCHANGED <<Heard, ReadOpen, Last, JobQueue, JobLock, ypc, yarg,
                   Receipt, ApprovalOpen, ReceiptAlive, Sent, jarg>>
    /\ UNCHANGED <<Recvd, Took>>
    /\ UNCHANGED <<prodVars, seqVars, stealVars, planVars, actVars, drainVars, licVars>>

YellNext ==
    \/ ReadEnd
    \/ SelectInbound
    \/ YellAssignLock
    \/ YellAssignPush
    \/ SelectOutbound
    \/ SelectElse
    \/ JobExecuteLock
    \/ JobExecutePop
    \/ JobReceive
    \/ JobPanic
    \/ JobWake

\* ------------------------------- ActionLogic for Action<ProcessQueueAction>

\* The task that executes the drain action, as a caller of the queue's Do.
Drainer == NumCallers

\* The tasks that enqueue into the queue.
Feeders == Callers \ {Drainer}

\* What Action.Execute(Context) of a drained action can come to.
Executions == {"ok", "err", "panic"}

DrainNew ==
    /\ dpc = "idle"
    /\ Drained = <<>>
    /\ Mark = [line |-> <<>>, given |-> 0]

\* Execute: Context.Karma.get(&self.Content.QueueName), and
\* Err(ExecutionError("Queue {} not found")) for a name with no queue.
DrainCall ==
    /\ dpc = "idle"
    /\ \E found \in BOOLEAN : dpc' = IF found THEN "loop" ELSE "err"
    /\ Mark' = [line |-> Line, given |-> Len(Given)]
    /\ UNCHANGED Drained
    /\ UNCHANGED <<prodVars, seqVars, stealVars, planVars, actVars, yellVars, licVars>>

\* Execute: while let Some(Action) = Queue.Do().await: the call of Do.
DrainDo ==
    /\ dpc = "loop"
    /\ cres[Drainer] = None
    /\ CallDo(Drainer)

\* The drain gone wrong: the first None or the first action executed ends
\* the loop (if let in place of while let).
DrainReturnEarly ==
    /\ dpc = "loop"
    /\ cpc[Drainer] = "idle"
    /\ cres[Drainer] # None
    /\ Drained # <<>> \/ cres[Drainer][1] = None
    /\ dpc' = "ok"
    /\ UNCHANGED <<Drained, Mark>>
    /\ UNCHANGED <<prodVars, seqVars, stealVars, planVars, actVars, yellVars, licVars>>

\* Execute: Do returned None: the loop is over and Ok(()) is returned.
DrainReturn ==
    /\ dpc = "loop"
    /\ cpc[Drainer] = "idle"
    /\ cres[Drainer] # None
    /\ cres[Drainer][1] = None
    /\ dpc' = "ok"
    /\ UNCHANGED <<Drained, Mark>>
    /\ UNCHANGED <<prodVars, seqVars, stealVars, planVars, actVars, yellVars, licVars>>

\* The drain gone wrong: an action that failed is put back at the head of
\* the queue before the error is returned.
DrainExecuteRestore ==
    /\ dpc = "loop"
    /\ cpc[Drainer] = "idle"
    /\ cres[Drainer] # None
    /\ cres[Drainer][1] # None
    /\ LineLock = None
    /\ Drained' = Append(Drained, cres[Drainer][1][1])
    /\ cres' = [cres EXCEPT ![Drainer] = None]
    /\ \E out \in Executions :
        /\ dpc' = CASE out = "ok" -> "loop" [] out = "err" -> "err" [] OTHER -> "panicked"
        /\ Line' = IF out = "err" THEN <<cres[Drainer][1][1]>> \o Line ELSE Line
    /\ UNCHANGED Mark
    /\ UNCHANGED <<LineLock, cpc, carg, Got, Made, Given, Taken>>
    /\ UNCHANGED <<seqVars, stealVars, planVars, actVars, yellVars, licVars>>

\* Execute: Do returned Some(Action): Action.Execute(Context).await?, the
\* pipeline of the library; an error ends the drain with it, a panic ends
\* the task.
DrainExecute ==
    /\ dpc = "loop"
    /\ cpc[Drainer] = "idle"
    /\ cres[Drainer] # None
    /\ cres[Drainer][1] # None
    /\ Drained' = Append(Drained, cres[Drainer][1][1])
    /\ cres' = [cres EXCEPT ![Drainer] = None]
    /\ \E out \in Executions :
        dpc' = CASE out = "ok" -> "loop" [] out = "err" -> "err" [] OTHER -> "panicked"
    /\ UNCHANGED Mark
    /\ UNCHANGED <<Line, LineLock, cpc, carg, Got, Made, Given, Taken>>
    /\ UNCHANGED <<seqVars, stealVars, planVars, actVars, yellVars, licVars>>

\* Again: the drain action failed and is attempted again: Execute is called
\* on a duplicate, whose QueueName resolves as it did before (Karma is not
\* altered; a queue that was found is one the drain has popped from).
DrainAgain ==
    /\ dpc = "err"
    /\ dpc' = IF Taken # <<>> THEN "loop" ELSE "err"
    /\ Mark' = [line |-> Line, given |-> Len(Given)]
    /\ UNCHANGED Drained
    /\ UNCHANGED <<prodVars, seqVars, stealVars, planVars, actVars, yellVars, licVars>>

DrainNext ==
    \/ DrainCall
    \/ DrainDo
    \/ DoLock(Drainer)
    \/ DoPop(Drainer)
    \/ DrainExecute
    \/ DrainReturn
    \/ \E c \in Feeders :
        \/ CallTake(c, 1)
        \/ TakeLock(c)
        \/ TakePush(c)

\* ---------------------- the executing Worker as the Sequence's Worker

\* The entries main attaches to the action it enqueues.
RetryDecorations ==
    {<<"Hooks", JArray(<<"LogStart", "Audit">>)>>,
     <<"NextAction", JObject(<<"ActionType", "Read">>)>>}

\* main builds one action, decorates it and hands it to Work.
RetryBuild ==
    \/ ActionNew("Read")
    \/ \E d \in RetryDecorations : Made = 0 /\ WithMetadata(d[1], d[2])
    \/ Made = 0 /\ xpc = "built" /\ CallTake(Main, Never)
    \/ TakeLock(Main)
    \/ TakePush(Main)

\* Again, with the Worker of Example/Sequence.rs: self.Site.Receive(
\* Action.Clone(), ..) is called, and Receive calls Action.Execute(Context).
WorkerReceive ==
    /\ pc = "receive"
    /\ xpc \in {"built", "returned"}
    /\ Attempts' = [Attempts EXCEPT ![Current[1]] = @ + 1]
    /\ Handed' = Some(Clone(Owned[1]))
    /\ pc' = "execute"
    /\ xpc' = "resolve"
    /\ LicenseAtCall' = Some(LicenseSignal)
    /\ UNCHANGED <<Time, Current, Retries, MaxRetries, Delay, Fate, Profile,
                   Script, Outcome>>
    /\ UNCHANGED <<Owned, Spoiled>>
    /\ UNCHANGED <<Grudge, Calls>>
    /\ UNCHANGED <<Metadata, LicenseSignal, ActionType, HookAt, Events, Verdict,
                   LicenseRead>>
    /\ UNCHANGED <<prodVars, stealVars, planVars, yellVars, drainVars, licVars>>

\* Receive: what Execute returned is the answer to this attempt.
WorkerAnswer ==
    /\ pc = "execute"
    /\ xpc = "returned"
    /\ Script' = [Script EXCEPT ![Current[1]] =
                    IF Verdict = Some(Ok) THEN Attempts[Current[1]] ELSE Never]
    /\ pc' = "inflight"
    /\ UNCHANGED <<Time, Current, Retries, MaxRetries, Delay, Fate, Profile,
                   Attempts, Outcome>>
    /\ UNCHANGED boxVars
    /\ UNCHANGED <<Grudge, Calls>>
    /\ UNCHANGED <<prodVars, stealVars, planVars, actVars, yellVars, drainVars, licVars>>

\* Receive: a panic inside Execute unwinds through Again and Run, and the
\* task that runs Run is dead.
WorkerPanic ==
    /\ pc = "execute"
    /\ xpc = "panicked"
    /\ pc' = "panicked"
    /\ UNCHANGED <<Time, Current, Retries, MaxRetries, Delay, Fate, Profile,
                   Script, Attempts, Outcome>>
    /\ UNCHANGED boxVars
    /\ UNCHANGED <<Grudge, Calls>>
    /\ UNCHANGED <<prodVars, stealVars, planVars, actVars, yellVars, drainVars, licVars>>

\* The steps of the task that runs Run when the Worker executes the action.
RetryDriverNext ==
    \/ RunCheck
    \/ RunDoLock
    \/ RunDoPop
    \/ AgainEnter
    \/ WorkerReceive
    \/ Resolve
    \/ CheckLicense
    \/ HandleDelay
    \/ HooksEnter
    \/ HookStep
    \/ HooksLeave
    \/ ExecuteFunction
    \/ HandleNextAction
    \/ WorkerAnswer
    \/ WorkerPanic
    \/ AgainOk
    \/ AgainGiveUp
    \/ AgainBackoff
    \/ AgainWake

\* ------------------------------------- Signal and the license of duplicates

\* Signal::New(true) for every action built, and for a duplicate's own cell.
SignalNew ==
    /\ Cells = [c \in Ids \cup {FreshCell} |-> TRUE]
    /\ Tried = <<>>

\* Signal::Set(To) on the LicenseSignal of an action main has built, by a
\* holder of a clone of the action or of its Signal: *self.0.lock().await = To
SignalSet(a, to) ==
    /\ a \in 1..Made
    /\ Cells[a] # to
    /\ Cells' = [Cells EXCEPT ![a] = to]
    /\ UNCHANGED Tried
    /\ UNCHANGED <<prodVars, seqVars, stealVars, planVars, actVars, yellVars, drainVars>>

\* Again: self.Site.Receive(Action.Clone(), ..) is called with a Worker that
\* executes the duplicate.
LicensedReceive ==
    /\ pc = "receive"
    /\ Attempts' = [Attempts EXCEPT ![Current[1]] = @ + 1]
    /\ Handed' = Some(Clone(Owned[1]))
    /\ pc' = "license"
    /\ UNCHANGED <<Time, Current, Retries, MaxRetries, Delay, Fate, Profile,
                   Script, Outcome>>
    /\ UNCHANGED <<Owned, Spoiled>>
    /\ UNCHANGED <<Grudge, Calls>>
    /\ UNCHANGED <<prodVars, stealVars, planVars, actVars, yellVars, drainVars, licVars>>

\* The Worker alters a field of the duplicate it was handed.
LicensedWork ==
    /\ pc = "license"
    /\ \A f \in Fields : Handed[1][f] # Spent
    /\ \E f \in Fields : Handed' = Some([Handed[1] EXCEPT ![f] = Spent])
    /\ UNCHANGED <<Time, pc, Current, Retries, MaxRetries, Delay, Fate, Profile,
                   Script, Attempts, Outcome>>
    /\ UNCHANGED <<Owned, Spoiled>>
    /\ UNCHANGED <<Grudge, Calls>>
    /\ UNCHANGED <<prodVars, stealVars, planVars, actVars, yellVars, drainVars, licVars>>

\* Execute of the duplicate: CheckLicense reads the duplicate's LicenseSignal
\* (self.LicenseSignal.Get()) and returns InvalidLicense on false; past the
\* check the execution succeeds or fails for a reason of its own.
LicensedAnswer ==
    /\ pc = "license"
    /\ \E res \in (IF Cells[Handed[1].LicenseSignal]
                   THEN {"Ok", "ExecutionError"} ELSE {"InvalidLicense"}) :
        /\ Tried' = Append(Tried, [action |-> Current[1],
                                   attempt |-> Attempts[Current[1]],
                                   result |-> res])
        /\ Script' = [Script EXCEPT ![Current[1]] =
                        IF res = "Ok" THEN Attempts[Current[1]] ELSE Never]
    /\ pc' = "inflight"
    /\ UNCHANGED Cells
    /\ UNCHANGED <<Time, Current, Retries, MaxRetries, Delay, Fate, Profile,
                   Attempts, Outcome>>
    /\ UNCHANGED boxVars
    /\ UNCHANGED <<Grudge, Calls>>
    /\ UNCHANGED <<prodVars, stealVars, planVars, actVars, yellVars, drainVars>>

\* The steps of the task that runs Run when the Worker executes duplicates
\* under their license.
LicenseDriverNext ==
    \/ RunCheck
    \/ RunDoLock
    \/ RunDoPop
    \/ AgainEnter
    \/ LicensedReceive
    \/ LicensedWork
    \/ LicensedAnswer
    \/ AgainOk
    \/ AgainGiveUp
    \/ AgainBackoff
    \/ AgainWake

\* --------------------------------------------------------- specifications

SequenceIdle ==
    SequenceNew /\ Fate = None /\ Profile = "release" /\ Grudge = "ExecutionError"

InitProduction == ProductionNew /\ SequenceIdle /\ StealNew /\ FormalityNew /\ ActionNone
    /\ YellNew /\ DrainNew /\ SignalNew

SpecProduction == InitProduction /\ [][ProductionNext]_vars

InitSequence == ProductionNew /\ SequenceNew /\ StealNew /\ FormalityNew /\ ActionNone
    /\ Grudge = "ExecutionError"
    /\ YellNew /\ DrainNew /\ SignalNew

NextSequence == DriverNext \/ Shutdown \/ MainTake

\* tokio runs every spawned task that can take a step: the task running Run
\* is not starved. No await lies between taking Line's lock and releasing it,
\* so a holder always gets to release it.
SpecSequence ==
    /\ InitSequence
    /\ [][NextSequence]_vars
    /\ WF_vars(DriverNext)
    /\ WF_vars(TakePush(Main))

\* The Sequence under the default configuration and under a few retries, with
\* a Worker that alters the boxes it is handed and fails with an error of any
\* one kind, and with Run called again after it has returned.
InitAgain ==
    /\ ProductionNew /\ SequenceNew /\ StealNew /\ FormalityNew /\ ActionNone
    /\ YellNew /\ DrainNew /\ SignalNew
    /\ Fate \in {None, Some(I64(0)), Some(I64(1))}
    /\ Profile = "release"

NextAgain == DriverNext \/ ReceiveWork \/ RunCall \/ Shutdown \/ MainTake

SpecAgain == InitAgain /\ [][NextAgain]_vars

\* The Sequence under a negative max_retries, beside the default and 0, with
\* Workers that succeed at some attempt up to MaxScript.
WrapFates == {None, Some(I64(0)), Some(I64MinusOne)}

InitWrap ==
    /\ ProductionNew /\ StealNew /\ FormalityNew /\ ActionNone
    /\ YellNew /\ DrainNew /\ SignalNew
    /\ Time = FALSE
    /\ pc = "check"
    /\ Current = None
    /\ Retries = 0
    /\ MaxRetries = <<0, 0>>
    /\ Delay = <<0, 0, 0, 0>>
    /\ Fate \in WrapFates
    /\ Profile \in Profiles
    /\ Script = [a \in Ids |-> 1]
    /\ Attempts = [a \in Ids |-> 0]
    /\ Outcome = [a \in Ids |-> "none"]
    /\ Owned = None
    /\ Handed = None
    /\ Spoiled = FALSE
    /\ Grudge = "ExecutionError"
    /\ Calls = 1

WrapTake ==
    \/ \E k \in 1..MaxScript : Made < SeqActions /\ CallTake(Main, k)
    \/ TakeLock(Main)
    \/ TakePush(Main)

NextWrap == DriverNext \/ WrapTake

SpecWrap == InitWrap /\ [][NextWrap]_vars

InitSteal == ProductionNew /\ SequenceIdle /\ StealNew /\ FormalityNew /\ ActionNone
    /\ YellNew /\ DrainNew /\ SignalNew

SpecSteal == InitSteal /\ [][StealNext]_vars

\* The Mutex of every deque is tokio's, which serves its waiters in the order
\* they came: a task waiting at a lock that is free again and again gets it.
\* A task that is not waiting at a lock runs on.
FairSteal ==
    /\ SF_vars(AssignLock)
    /\ WF_vars(AssignPush)
    /\ \A w \in Workers :
        /\ SF_vars(DoLockOwn(w))
        /\ WF_vars(DoPopOwn(w))
        /\ SF_vars(DoLockOther(w))
        /\ WF_vars(DoPopOther(w))

SpecStealFair == InitSteal /\ [][StealNext]_vars /\ FairSteal

InitPlan == ProductionNew /\ SequenceIdle /\ StealNew /\ FormalityNew /\ ActionNone
    /\ YellNew /\ DrainNew /\ SignalNew

SpecPlan == InitPlan /\ [][PlanNext]_vars

InitAction == ProductionNew /\ SequenceIdle /\ StealNew /\ FormalityBuilt /\ ActionNone
    /\ YellNew /\ DrainNew /\ SignalNew

SpecAction == InitAction /\ [][ActionNext]_vars

InitYell ==
    /\ ProductionNew /\ SequenceIdle /\ StealNew /\ FormalityNew /\ ActionNone
    /\ YellNew /\ DrainNew /\ SignalNew

SpecYell == InitYell /\ [][YellNext]_vars

\* A Sequence whose Worker is a StealingWorker, with the pool of worker
\* loops behind the deques.
InitRoute ==
    /\ ProductionNew /\ SequenceIdle /\ StealNew /\ FormalityNew /\ ActionNone
    /\ YellNew /\ DrainNew /\ SignalNew

NextRoute == RouteDriverNext \/ PoolNext \/ MainTake

SpecRoute == InitRoute /\ [][NextRoute]_vars

\* A queue with the tasks that enqueue into it and one drain action on it.
InitDrain ==
    /\ ProductionNew /\ SequenceIdle /\ StealNew /\ FormalityNew /\ ActionNone
    /\ YellNew /\ DrainNew /\ SignalNew

SpecDrain == InitDrain /\ [][DrainNext]_vars

\* The drain with its failures retried.
NextRedrain == DrainNext \/ DrainAgain

SpecRedrain == InitDrain /\ [][NextRedrain]_vars

\* A Sequence whose Worker executes the actions it is handed, over the built
\* registry, under the default configuration and under a few retries.
InitRetry ==
    /\ ProductionNew /\ SequenceNew /\ StealNew /\ FormalityBuilt /\ ActionNone
    /\ YellNew /\ DrainNew /\ SignalNew
    /\ Fate \in {None, Some(I64(0)), Some(I64(1))}
    /\ Profile = "release"
    /\ Grudge = "ExecutionError"

\* The lookups of the other executions that hold the same Arc<Formality>.
RetryLookups == \E n \in Names : Remove(n)

NextRetry == RetryDriverNext \/ RetryBuild \/ RetryLookups

SpecRetry == InitRetry /\ [][NextRetry]_vars

\* A Sequence whose Worker executes the duplicates it is handed, while the
\* license Signals of the actions are set from elsewhere.
InitLicense ==
    /\ ProductionNew /\ SequenceNew /\ StealNew /\ FormalityNew /\ ActionNone
    /\ YellNew /\ DrainNew /\ SignalNew
    /\ Fate \in {Some(I64(0)), Some(I64(1))}
    /\ Profile = "release"
    /\ Grudge = "ExecutionError"

NextLicense ==
    \/ LicenseDriverNext
    \/ MainTake
    \/ \E a \in Ids : \E to \in BOOLEAN : SignalSet(a, to)

SpecLicense == InitLicense /\ [][NextLicense]_vars

\* ------------------------------------------------------------ properties

Range(q) == {q[i] : i \in 1..Len(q)}

IsPrefix(p, q) == Len(p) <= Len(q) /\ \A i \in 1..Len(p) : p[i] = q[i]

\* The places (caller, index) at which a Do call returned action a.
Returned(a) ==
    UNION {{<<c, i>> : i \in {n \in 1..Len(Got[c]) : Got[c][n] = a}} : c \in Callers}

\* The places of Line that hold action a.
Queued(a) == {i \in 1..Len(Line) : Line[i] = a}

\* C1. FIFO: the actions Do has returned are, in order, the first actions
\* that Take pushed: an action enqueued before another is dequeued before it.
C1_FifoOrder == IsPrefix(Taken, Given)

\* The pushes ran in another order than the actions were built, and two of
\* them have been dequeued.
C1_Witness == Len(Taken) >= 2 /\ Given[1] > Given[2]

\* C2. With several callers in Take and Do at once, every enqueued action is
\* either still in the queue and returned to nobody, or out of the queue and
\* returned by exactly one Do call.
C2_ExactlyOnce ==
    \A a \in Range(Given) : Cardinality(Returned(a)) + Cardinality(Queued(a)) = 1

\* Both callers have had an action returned while a Take is in progress.
C2_Witness ==
    /\ \A c \in {1, 2} : Got[c] # <<>>
    /\ \E c \in Callers : cpc[c] \in {"take_lock", "take_push"}

\* The configured max_retries (an i64), 3 when the setting is absent.
ConfiguredRetries == IF Fate = None THEN I64(DefaultMaxRetries) ELSE Fate[1]

\* n = N + 1 and k <= N + 1 for a small n, k and a non-negative i64 N.
IsSucc(n, N) == n >= 1 /\ N = I64(n - 1)

WithinSucc(k, N) == (N[1] = 0 /\ N[2] = 0 /\ N[3] = 0) => k - 1 <= N[4]

\* C3. For max_retries = N >= 0 the wrapper calls Receive min(k, N + 1)
\* times, k the first attempt that succeeds: N + 1 calls and an error for a
\* Worker that fails throughout, k calls and Ok when k <= N + 1.
C3_AttemptsExact ==
    \A a \in Ids :
        Outcome[a] # "none" =>
            IF Script[a] # Never /\ WithinSucc(Script[a], ConfiguredRetries)
            THEN Outcome[a] = "ok" /\ Attempts[a] = Script[a]
            ELSE Outcome[a] = "err" /\ IsSucc(Attempts[a], ConfiguredRetries)

\* The same for the settings that fit a u32 and stay below the width of the
\* backoff's base: there the count is exact.
AttemptsExactBelowOverflow ==
    (ConfiguredRetries[1] = 0 /\ ConfiguredRetries[2] = 0
        /\ ConfiguredRetries[3] = 0 /\ ConfiguredRetries[4] < U64Bits)
    => C3_AttemptsExact

\* C4. A final failure does not stop the driver: while Shutdown has not been
\* called, Run is neither returned nor dead after an action has exhausted its
\* retries, and every action in the queue then is dispatched in the end.
C4_FailureNotFatal ==
    /\ [](\A a \in Ids :
            (Outcome[a] = "err" /\ ~Time) => pc \notin {"stopped", "panicked"})
    /\ \A b \in Ids :
            []((b \in Range(Line) /\ \E a \in Ids : Outcome[a] = "err")
                => <>(Attempts[b] > 0 \/ Time))

\* An action has failed for good and another one, queued behind it, has been
\* dispatched with the flag still down.
C4_Witness ==
    \E a \in Ids : \E b \in Ids :
        /\ Outcome[a] = "err" /\ Attempts[a] >= 2
        /\ a < b /\ Attempts[b] > 0 /\ ~Time

\* C5. Once the flag is set, an iteration of Run that begins goes to its
\* return without a dequeue: from the loop's head with the flag up the driver
\* only returns, and after the return it takes nothing from the queue, whose
\* entries stay in place.
C5_NoDequeueAfterShutdown ==
    [][(Time /\ pc \in {"check", "stopped"}) =>
          /\ pc' \in {pc, "stopped"}
          /\ Taken' = Taken
          /\ IsPrefix(Line, Line')]_vars

\* Run has returned and actions are left in the queue.
C5_Witness == pc = "stopped" /\ Line # <<>>

\* C6. A Shutdown during a dispatch does not cut it short: Run returns only
\* from the head of its loop, so when it has returned every action it took
\* from the queue has its result, and a final error has had all its attempts.
C6_InFlightCompletes ==
    /\ [][pc' = "stopped" => pc \in {"check", "stopped"}]_vars
    /\ [](pc = "stopped" =>
            /\ Current = None
            /\ \A a \in Range(Taken) : Outcome[a] # "none")
    /\ [](\A a \in Ids :
            Outcome[a] = "err" => GeU32(Attempts[a] - 1, ReadMaxRetries(Fate)))

\* The flag is up while an action sleeps between two attempts.
C6_Witness == Time /\ Current # None /\ pc = "sleep" /\ Retries >= 1

\* The places (deque, index) that hold action a, and the workers whose Do
\* call has returned it and not yet executed it.
Stored(a) ==
    UNION {{<<w, i>> : i \in {n \in 1..Len(Queues[w]) : Queues[w][n] = a}} : w \in Workers}

Holding(a) == {w \in Workers : wres[w] = Some(a)}

\* The actions main has pushed onto a deque.
Pushed == {a \in 1..Dealt : aarg = None \/ aarg[1][2] # a}

AllEmpty == \A w \in Workers : Queues[w] = <<>>

\* C7. Work stealing loses and duplicates nothing: every action pushed onto
\* a deque is in one place of one deque, or held by the one worker whose Do
\* returned it, or executed once; so with every deque empty and no worker
\* holding an action, each has been executed exactly once.
C7_StealExactlyOnce ==
    /\ \A a \in Pushed :
            Cardinality(Stored(a)) + Cardinality(Holding(a)) + Ran[a] = 1
    /\ (AllEmpty /\ \A w \in Workers : wres[w] = None)
            => \A a \in Pushed : Ran[a] = 1

\* Every action main builds has been pushed, the deques are empty, one action
\* has been executed and a worker holds the last one, which it stole.
C7_Witness ==
    /\ Dealt = StealActions /\ aarg = None /\ AllEmpty
    /\ \E w \in Workers :
        /\ wpc[w] = "ret" /\ wres[w] # None /\ QueuesOther[w] # <<>>
        /\ \A a \in StealIds \ {wres[w][1]} : Ran[a] = 1

\* A Do call of worker w returns None in this step.
ReturnsNone(w) == wpc[w] # "ret" /\ wpc'[w] = "ret" /\ wres'[w] = None

\* C8 as claimed. Whenever a Do call returns None, every deque is empty at
\* that moment, whatever other tasks do meanwhile.
C8_NoneMeansAllEmpty ==
    [][\A w \in Workers : ReturnsNone(w) => AllEmpty']_vars

\* C8 as amended. Whenever a Do call returns None and no Assign has pushed an
\* action since the call began, every deque is empty at that moment.
C8_NoneMeansAllEmptyUnlessRefilled ==
    [][\A w \in Workers : (ReturnsNone(w) /\ ~Refilled'[w]) => AllEmpty']_vars

\* A Do call has returned None with no push since it began, while another
\* worker's Do call has returned an action.
C8_Witness ==
    \E w \in Workers : \E u \in Workers :
        /\ wpc[w] = "ret" /\ wres[w] = None /\ ~Refilled[w]
        /\ wpc[u] = "ret" /\ wres[u] # None

\* The registry before the last call, and the names it held.
SignatureBefore == Answer.before[1]

FunctionBefore == Answer.before[2]

SignedNames == {n \in Names : contains_key(Signature, n)}

FunctionNames == {n \in Names : contains_key(Function, n)}

\* C9. Registration guard: an Add for a name with no signature returns an
\* error and leaves the signatures and the functions as they were; an Add
\* for a name that has been signed succeeds, and a lookup of the name then
\* returns the function added.
C9_RegistrationGuard ==
    Answer.op = "Add" =>
        LET n == Answer.name[1] IN
        IF contains_key(SignatureBefore, n)
        THEN /\ Answer.ok
             /\ contains_key(Function, n)
             /\ Function[n] = Answer.given
             /\ \A m \in Names \ {n} : Function[m] = FunctionBefore[m]
             /\ Signature = SignatureBefore
        ELSE /\ ~Answer.ok
             /\ Signature = SignatureBefore
             /\ Function = FunctionBefore

\* An Add has just failed for a name without a signature, after an Add for
\* the other, signed, name has bound a function.
C9_Witness ==
    /\ Answer.op = "Add" /\ ~Answer.ok
    /\ FunctionNames # {}
    /\ Answer.name[1] \notin SignedNames

\* C10. Registry invariant: every name with a function has a signature.
C10_FunctionsAreSigned == FunctionNames \subseteq SignedNames

\* A function is bound, a signed name has none, and the last call was an Add
\* that failed.
C10_Witness ==
    /\ FunctionNames # {}
    /\ FunctionNames # SignedNames
    /\ Answer.op = "Add" /\ ~Answer.ok

\* The places of Events with an event of a stage, and the invocations of a
\* hook or of the registered function.
StageEvents(stage) == {i \in 1..Len(Events) : Events[i].stage = stage}

Invocations == StageEvents("hook") \cup StageEvents("function")

\* Execute is over: it has returned or its task has panicked.
Finished == xpc \in {"returned", "panicked"}

Returns(kind) == xpc = "returned" /\ Verdict # None /\ Verdict[1].kind = kind

OfficerInvalid ==
    /\ Metadata["CommandingOfficer"] # None
    /\ Field(Metadata["CommandingOfficer"][1], "License") # Some("valid")

StageRank(stage) ==
    CASE stage = "resolve" -> 1
      [] stage = "license" -> 2
      [] stage = "delay" -> 3
      [] stage \in {"hooks", "hook"} -> 4
      [] stage = "function" -> 5
      [] stage \in {"next", "return"} -> 6

\* C13. Execute is an ordered pipeline: the stage events come in the order
\* resolve, license, delay, hooks, function, next, none left out and none
\* twice; an error comes from the last stage that ran, and once Execute has
\* returned no stage runs.
C13_OrderedPipeline ==
    /\ [](\A i \in 1..Len(Events) :
            IF i = 1
            THEN Events[i].stage = "resolve"
            ELSE \/ StageRank(Events[i].stage) = StageRank(Events[i - 1].stage) + 1
                 \/ /\ StageRank(Events[i].stage) = StageRank(Events[i - 1].stage)
                    /\ Events[i].stage = "hook")
    /\ [](Verdict # None =>
            /\ Events # <<>>
            /\ IF Verdict[1].kind = "Ok"
               THEN Events[Len(Events)].stage = "next"
               ELSE /\ StageRank(Events[Len(Events)].stage) <= StageRank(Verdict[1].stage)
                    /\ StageRank(Verdict[1].stage) <= StageRank(Events[Len(Events)].stage) + 1)
    /\ [][Verdict # None => (Events' = Events /\ Verdict' = Verdict)]_vars

\* An execution with a delay and two hooks has gone through every stage and
\* returned Ok.
C13_Witness ==
    /\ Returns("Ok")
    /\ Metadata["Delay"] # None
    /\ Cardinality(StageEvents("hook")) = 2
    /\ StageEvents("function") # {}

\* The resolved type has a signature and no function.
Unbound ==
    /\ ActionType # None
    /\ Signature[ActionType[1]] # None
    /\ Function[ActionType[1]] = None

NoFunctionFound ==
    /\ Returns("ExecutionError")
    /\ Verdict[1].text = "No function found for action type"
    /\ Verdict[1].name = ActionType[1]
    /\ Verdict[1].stage = "function"

\* The places of the Hooks array whose name has a hook in the table.
Hooked == {i \in 1..Len(HookList) : HookList[i] \in DOMAIN Span}

\* C14 as claimed. Missing operation: with a valid license and a type that
\* has a signature and no function, Execute returns the ExecutionError that
\* names the type, after the hooks have run, and does not reach NextAction.
C14_MissingOperation ==
    (Finished /\ Unbound /\ LicenseRead = Some(TRUE)) =>
        /\ NoFunctionFound
        /\ \A i \in Hooked : \E e \in StageEvents("hook") : Events[e].at = i
        /\ StageEvents("next") = {}

\* C14 as amended. The same, for an action none of whose hooks fails.
C14_MissingOperationAfterHooks ==
    (Finished /\ Unbound /\ LicenseRead = Some(TRUE)
        /\ \A i \in Hooked : Span[HookList[i]] = "ok") =>
        /\ NoFunctionFound
        /\ \A i \in Hooked : \E e \in StageEvents("hook") : Events[e].at = i
        /\ StageEvents("next") = {}

\* An action of a signed type without a function, with a hook that ran, has
\* got the error that names its type.
C14_Witness ==
    /\ Unbound /\ NoFunctionFound
    /\ StageEvents("hook") # {}
    /\ Metadata["NextAction"] # None

\* C15. Chaining: an action with a NextAction entry runs its own operation,
\* then the whole pipeline of the chained action, and then returns (with the
\* chained action's failure, if it fails).
C15_ChainedPipelineRuns ==
    (Finished /\ Metadata["NextAction"] # None /\ StageEvents("next") # {}) =>
        /\ xpc = "returned"
        /\ StageEvents("chained") # {}

\* C16. Hooks: the hooks invoked are those of the Hooks array that the table
\* holds, in array order and once for each place of the array; a name
\* without a hook is passed over and the names after it are still processed.
C16_HooksInOrder ==
    /\ \A e \in StageEvents("hook") :
            /\ Events[e].at \in Hooked
            /\ Events[e].name = HookList[Events[e].at]
            /\ \A d \in StageEvents("hook") : d < e => Events[d].at < Events[e].at
    /\ (xpc = "hook" \/ StageEvents("hook") # {}) =>
            \A i \in Hooked :
                (i < HookAt) => \E e \in StageEvents("hook") : Events[e].at = i
    /\ (xpc \in {"function", "next"} \/ (Finished /\ Verdict # None
            /\ Verdict[1].stage \in {"function", "return"})) =>
            \A i \in Hooked : \E e \in StageEvents("hook") : Events[e].at = i

\* The hooks stage is over for an array that begins with a name without a
\* hook, and the hook named after it has been invoked.
C16_Witness ==
    /\ xpc \in {"function", "next", "returned"}
    /\ HookList # <<>> /\ HookList[1] \notin DOMAIN Span
    /\ \E e \in StageEvents("hook") : Events[e].at = 2

\* C17. Hook failure: when the hook at place i fails, Execute returns its
\* error; no hook at a later place, no function and no chained action is
\* invoked.
C17_HookFailureAborts ==
    \A e \in StageEvents("hook") :
        Span[Events[e].name] = "err" =>
            /\ Returns("ExecutionError")
            /\ Verdict[1].stage = "hook"
            /\ Verdict[1].at = Events[e].at
            /\ Verdict[1].name = Events[e].name
            /\ e = Len(Events)
            /\ StageEvents("function") = {}
            /\ StageEvents("next") = {}

\* The second hook of three has failed, for an action with a function and a
\* NextAction entry.
C17_Witness ==
    /\ Returns("ExecutionError") /\ Verdict[1].stage = "hook" /\ Verdict[1].at = 2
    /\ Len(HookList) = 3
    /\ ActionType = Some("Read")
    /\ Metadata["NextAction"] # None

\* C18. At every attempt the retry wrapper hands the Worker a duplicate made
\* at that call: the metadata and the payload the Worker sees when the attempt
\* starts are those of the action as it was dequeued, whatever the Worker did
\* to the boxes of the attempts before, and the box Again owns stays as it was
\* dequeued for as long as Again holds it.
C18_FreshDuplicate ==
    /\ [](Current # None => Owned = Some(Box(Current[1])))
    /\ [][(pc = "receive" /\ pc' = "inflight")
            => (Handed' = Some(Box(Current[1])) /\ Owned' = Owned)]_vars

\* A retry is in flight, the Worker altered the box of an earlier attempt, and
\* the box it holds now is as the action was dequeued.
C18_Witness ==
    /\ pc = "inflight"
    /\ Retries >= 1
    /\ Spoiled
    /\ Handed = Some(Box(Current[1]))

\* C19. A Do on an empty queue returns None at once and leaves the queue
\* empty: the pop is never held back by the queue's content, only by the lock,
\* which no holder keeps while it waits. A Do on a non-empty queue returns the
\* head and leaves the entries behind it, in their order.
C19_DequeueFrame ==
    /\ [](\A c \in Callers :
            /\ (cpc[c] = "do_lock" /\ LineLock = None) => ENABLED DoLock(c)
            /\ cpc[c] = "do_pop" => ENABLED DoPop(c))
    /\ [][\A c \in Callers :
            (cpc[c] = "do_pop" /\ cpc'[c] = "idle") =>
                IF Line = <<>>
                THEN /\ cres'[c] = Some(None)
                     /\ Line' = <<>>
                ELSE /\ cres'[c] = Some(Some(Head(Line)))
                     /\ Line' = Tail(Line)]_vars

\* One caller's Do found the queue empty and returned None; another's, later,
\* returned the head of a queue of two and left the second entry.
C19_Witness ==
    \E c, d \in Callers :
        /\ cres[c] = Some(None)
        /\ cres[d] # None
        /\ cres[d][1] # None
        /\ Len(Line) = 1
        /\ Line[1] # cres[d][1][1]
        /\ Taken = <<cres[d][1][1]>>

\* The bridge takes an item from the stream in this step.
Hears == ypc = "select" /\ Heard' = Heard + 1

\* C20. An inbound item that is not a text frame, or whose text does not
\* parse as an Action, leaves the work queue as it is and leaves the bridge at
\* its select!; a text frame that parses makes the bridge push exactly that
\* one action, and the work queue grows by nothing else.
C20_InboundFrames ==
    /\ [][Hears =>
            /\ JobQueue' = JobQueue
            /\ IF Accepted(Last'[1]) = None
               THEN ypc' = "select" /\ yarg' = None
               ELSE ypc' = "assign_lock" /\ yarg' = Accepted(Last'[1])]_vars
    /\ [](ypc \in {"assign_lock", "assign_push"} =>
            (yarg # None /\ yarg = Accepted(Last[1])))
    /\ [][(ypc = "assign_push" /\ ypc' # ypc) =>
            (JobQueue' = Append(JobQueue, yarg[1]) /\ ypc' = "select")]_vars
    /\ [][Len(JobQueue') > Len(JobQueue) => ypc = "assign_push"]_vars

\* A text frame that parsed has been pushed and is still queued, and the
\* bridge, back at its select!, has since passed over a frame that is not an
\* Action.
C20_Witness ==
    /\ ypc = "select"
    /\ Heard >= 2
    /\ JobQueue # <<>>
    /\ Last # None
    /\ Accepted(Last[1]) = None

\* C21. Each result the bridge takes from the channel is handed to the
\* transport once, in the order taken, and none twice; a send that fails ends
\* the loop; a bridge that has ended takes no item from the stream, assigns no
\* action and sends no result.
C21_OutboundOnce ==
    /\ [](/\ IsPrefix(Sent, Recvd)
          /\ Len(Recvd) <= Len(Sent) + 1
          /\ \A i, j \in 1..Len(Recvd) : Recvd[i] = Recvd[j] => i = j
          /\ Len(Recvd) > Len(Sent) => ypc = "done")
    /\ [][(Len(Recvd') > Len(Recvd) /\ Sent' = Sent) => ypc' = "done"]_vars
    /\ [][ypc = "done" =>
            /\ ypc' = "done"
            /\ Sent' = Sent
            /\ Recvd' = Recvd
            /\ Heard' = Heard
            /\ Len(JobQueue') <= Len(JobQueue)]_vars

\* One result was sent, the send of the next failed and the bridge has ended,
\* with the stream still open and a frame still to come.
C21_Witness ==
    /\ ypc = "done"
    /\ Len(Sent) = 1
    /\ Len(Recvd) = 2
    /\ ReadOpen
    /\ Heard < MaxFrames

\* The retries configured, when they are fewer than 2^16.
FewRetries == ReadMaxRetries(Fate)[2]

\* C22. The retry wrapper does not tell one kind of error from another: on
\* every failed attempt it gives up exactly when Retries >= MaxRetries and
\* retries otherwise, whatever the kind, so an action whose Worker never
\* succeeds is attempted max_retries + 1 times and one that succeeds at attempt
\* n is attempted n times, for a Worker that fails with InvalidLicense as for
\* any other.
C22_KindBlind ==
    /\ [][(pc = "inflight" /\ pc' # pc /\ ~ReceiveOk) =>
            IF GeU32(Retries, MaxRetries)
            THEN /\ Outcome'[Current[1]] = "err"
                 /\ pc' = "check"
                 /\ Retries' = Retries
            ELSE /\ Outcome' = Outcome
                 /\ pc' \in {"sleep", "panicked"}
                 /\ Retries' = Retries + 1]_vars
    /\ [](\A a \in Ids :
            /\ Outcome[a] = "err" => Attempts[a] = FewRetries + 1
            /\ Outcome[a] = "ok" => Attempts[a] = Script[a])

\* A Worker that fails with InvalidLicense has been given its last retry under
\* the default configuration, and Again has given up.
C22_Witness ==
    \E a \in Ids :
        /\ Grudge = "InvalidLicense"
        /\ Fate = None
        /\ Outcome[a] = "err"
        /\ Attempts[a] = DefaultMaxRetries + 1

\* a <= b for two u64.
LeU64(a, b) ==
    \/ a = b
    \/ \E i \in 1..4 : a[i] < b[i] /\ \A j \in 1..(i - 1) : a[j] = b[j]

\* 2^k as a u64, for k < 64.
TwoTo(k) == [i \in 1..4 |-> IF 4 - i = k \div 16 THEN 2 ^ (k % 16) ELSE 0]

\* C23. The sleep before every retry k is computed without overflow (no panic
\* and no wrapped value) and lies between 2^k and 2^k + 999 seconds, whatever
\* max_retries is configured.
C23_BackoffBound ==
    /\ [](pc # "panicked")
    /\ [][(pc = "inflight" /\ pc' = "sleep") =>
            /\ Retries' < U64Bits
            /\ LeU64(TwoTo(Retries'), Delay')
            /\ LeU64(Delay', AddU64(TwoTo(Retries'), JitterBound - 1).value)]_vars

\* C24. After Shutdown has been called Run returns in the end, the queue
\* empty or not, the action in flight failing or not.
C24_ShutdownLiveness == Time ~> (pc = "stopped")

\* C25. The flag only goes from false to true, so a Shutdown after the first
\* changes nothing; with the flag up a call of Run goes from the head of its
\* loop to its return and nowhere else, taking nothing from the queue and
\* handing nothing to the Worker, and Run returns only with the flag up.
C25_StoppedIsTerminal ==
    /\ [][Time => Time']_vars
    /\ [](pc = "stopped" => Time)
    /\ [][(Time /\ pc \in {"check", "stopped"}) =>
            /\ pc' \in {"check", "stopped"}
            /\ Taken' = Taken
            /\ Attempts' = Attempts
            /\ IsPrefix(Line, Line')]_vars

\* Run was called a second time after Shutdown and has returned, with an
\* action left in the queue.
C25_Witness ==
    /\ Calls = 2
    /\ pc = "stopped"
    /\ Line # <<>>
    /\ Time

\* The action assigned last among those a deque holds (main numbers the
\* actions in the order it assigns them).
Newest(q) == CHOOSE a \in Range(q) : \A b \in Range(q) : b <= a

\* A deque without action a, the others in their order.
Without(q, a) ==
    LET Keep(x) == x # a
    IN  SelectSeq(q, Keep)

\* C26. A Do of worker w that finds w's deque non-empty returns the action
\* assigned to w last among those the deque still holds, takes only that one
\* from it, leaves every other deque as it is and ends there; w goes to the
\* deques of the others only from an own deque it found empty, and takes from
\* no deque but its own or the victim it holds.
C26_OwnDequeFirst ==
    /\ [][\A w \in Workers :
            (wpc[w] = "own_pop" /\ wpc'[w] # "own_pop" /\ Queues[w] # <<>>) =>
                /\ wres'[w] = Some(Newest(Queues[w]))
                /\ Queues'[w] = Without(Queues[w], Newest(Queues[w]))
                /\ \A v \in Workers \ {w} : Queues'[v] = Queues[v]
                /\ wpc'[w] = "ret"]_vars
    /\ [][\A w \in Workers :
            (wpc'[w] \in {"steal_lock", "steal_pop"} /\ wpc'[w] # wpc[w]) =>
                \/ wpc[w] = "own_pop" /\ Queues[w] = <<>>
                \/ wpc[w] \in {"steal_lock", "steal_pop"}]_vars
    /\ [][\A v \in Workers :
            Len(Queues'[v]) < Len(Queues[v]) =>
                \E w \in Workers :
                    /\ wpc'[w] # wpc[w]
                    /\ \/ wpc[w] = "own_pop" /\ w = v
                       \/ wpc[w] = "steal_pop" /\ Head(QueuesOther[w]) = v]_vars

\* A worker's Do has returned the second of two actions assigned to its deque
\* and left the first, while another deque is empty.
C26_Witness ==
    \E w \in Workers :
        /\ wpc[w] = "ret"
        /\ QueuesOther[w] = <<>>
        /\ wres[w] = Some(2)
        /\ Queues[w] = <<1>>

\* The copies of action a behind the Sequence's Worker: the places that hold
\* it, the workers holding it, and the times it was executed.
Placed(a) == Cardinality(Stored(a)) + Cardinality(Holding(a)) + Ran[a]

\* Action a has left the ProductionQueue and the Assign of its Receive is over.
Lodged(a) ==
    /\ a \in Range(Taken)
    /\ \/ Current # Some(a)
       \/ pc = "inflight"
       \/ pc = "assign" /\ apc = "idle"

\* C27. With a StealingWorker as the Sequence's Worker, every action taken
\* off the ProductionQueue is put once, and only once, on the deque of the
\* worker's Id: Receive answers Ok, so Again makes one attempt for it and no
\* second copy is ever pushed; an action not yet routed is on no deque.
C27_RoutedOnce ==
    /\ [](\A a \in 1..SeqActions :
            /\ Attempts[a] <= 1
            /\ Placed(a) = (IF Lodged(a) THEN 1 ELSE 0)
            /\ Outcome[a] # "err")
    /\ [](pc = "inflight" => ReceiveOk)
    /\ [][\A w \in Workers :
            Len(Queues'[w]) > Len(Queues[w]) =>
                /\ w = Site
                /\ pc = "assign"
                /\ Queues'[w] = Append(Queues[w], Current[1])]_vars

C27_Witness ==
    /\ Outcome[1] = "ok" /\ Outcome[2] = "ok"
    /\ Attempts[1] = 1 /\ Attempts[2] = 1
    /\ Ran[1] = 1
    /\ Queues[Site] = <<2>>

\* No push has run on the queue since the drain was called.
NoEnqueueSince == Len(Given) = Mark.given

\* C28. When the drain of a queue returns Ok and nothing was enqueued into the
\* queue while it ran, the queue is empty and the actions that were in it
\* when the drain was called have been executed once each, oldest first.
C28_DrainEmpties ==
    (dpc = "ok" /\ NoEnqueueSince) =>
        /\ Line = <<>>
        /\ Drained = Mark.line
        /\ \A i \in 1..Len(Drained) : \A j \in 1..Len(Drained) :
                Drained[i] = Drained[j] => i = j

C28_Witness ==
    /\ dpc = "ok"
    /\ NoEnqueueSince
    /\ Len(Mark.line) >= 2
    /\ Drained = Mark.line

\* The number of times a stage has been entered.
Count(stage) == Cardinality(StageEvents(stage))

\* Again is through with the action, or the task that ran it is dead.
Over == pc = "panicked" \/ Outcome[1] # "none"

\* Every attempt begins at the first stage of the pipeline.
RerunsFromFirstStage == xpc # "resolve" => Count("resolve") = Attempts[1]

\* C29. Retries re-run the whole pipeline: every attempt begins at the first
\* stage, and an action whose function succeeds at every attempt and whose
\* later stage fails at every attempt has had its function invoked
\* max_retries + 1 times when Again is through with it.
C29_RetryReruns ==
    /\ RerunsFromFirstStage
    /\ (/\ Over
        /\ Metadata["NextAction"] # None
        /\ Count("function") >= 1
        /\ Count("function") = Count("next"))
       => IsSucc(Count("function"), ConfiguredRetries)

\* What the code does with such an action: the function is invoked once and
\* the task that runs Run dies in the later stage.
FailingLaterStageEndsRun ==
    (Metadata["NextAction"] # None /\ Count("next") >= 1) =>
        /\ pc \in {"execute", "panicked"}
        /\ xpc = "panicked"
        /\ Count("next") = 1
        /\ Outcome[1] = "none"

\* The hooks and a failing function are invoked again at every attempt:
\* once Again has given up, each hook position and the function have been
\* invoked max_retries + 1 times.
FailedAttemptsRerunHooks ==
    (Outcome[1] = "err" /\ HookList # <<>> /\ Metadata["NextAction"] = None) =>
        /\ IsSucc(Count("function"), ConfiguredRetries)
        /\ Count("hook") = Len(HookList) * Count("function")

\* Execute has returned the error of a metadata without an ActionType entry.
ActionTypeNotFound ==
    /\ Verdict # None
    /\ Verdict[1].kind = "ExecutionError"
    /\ Verdict[1].text = "ActionType not found"

\* C30. An action built by New and decorated by WithMetadata calls, whatever
\* they are, has an ActionType entry in its metadata at all times (an entry
\* is overwritten, never taken out), and Execute never returns the error
\* "ActionType not found".
C30_ActionTypeKept ==
    /\ xpc # "none" => Metadata["ActionType"] # None
    /\ ~ActionTypeNotFound

C30_Witness ==
    /\ xpc = "returned"
    /\ Metadata["ActionType"] = Some(JNumber("7"))
    /\ Metadata["Delay"] # None
    /\ Verdict[1].text = "ActionType is not a string"

\* The results the worker loop has put into the channel, in order.
Approved == Recvd \o Receipt

\* C31. The worker loop hands every action it takes from Work to Site.Receive
\* once and sends the result to the Approval channel once, in the order the
\* actions were taken; the loop is left only when a send on the channel
\* fails, a failed send always leaves it, and an empty queue leads to the
\* sleep and back to the queue.
C31_WorkerLoop ==
    /\ [](/\ Len(Took) = Len(Approved)
                + (IF jpc \in {"receive", "done", "panicked"} THEN 1 ELSE 0)
          /\ \A i \in 1..Len(Approved) : Approved[i] = Receive(Took[i])
          /\ jpc = "receive" => jarg = Some(Took[Len(Took)]))
    /\ [][(jpc' = "done" /\ jpc # "done") => (jpc = "receive" /\ ~ReceiptAlive)]_vars
    /\ [][(jpc = "receive" /\ ~ReceiptAlive /\ jpc' # jpc) =>
            (jpc' \in {"done", "panicked"} /\ Receipt' = Receipt)]_vars
    /\ [][(jpc = "execute_pop" /\ JobQueue = <<>> /\ jpc' # jpc) => jpc' = "sleep"]_vars
    /\ [][(jpc = "sleep" /\ jpc' # jpc) => jpc' = "execute_lock"]_vars

C31_Witness ==
    /\ jpc = "done"
    /\ Len(Took) = 2
    /\ Len(Approved) = 1
    /\ Took[1].Variant # Took[2].Variant

\* The actions that have been dispatched and have no result yet.
InFlight == {a \in Ids : Attempts[a] > 0 /\ Outcome[a] = "none"}

\* The place of an enqueued action in the order of the enqueues.
EnqueuedAt(a) == CHOOSE i \in 1..Len(Given) : Given[i] = a

\* C32. One driver handles one action at a time: it takes an action from the
\* queue only when it holds none, the sleeps between the attempts of an
\* action included; at most one action is in flight, the one Again holds;
\* and an action is dispatched first only after every action enqueued before
\* it has its result.
C32_OneAtATime ==
    /\ [][Taken' # Taken => (Current = None /\ InFlight = {})]_vars
    /\ [](/\ Cardinality(InFlight) <= 1
          /\ \A a \in InFlight : Current = Some(a)
          /\ pc = "sleep" => InFlight = {Current[1]})
    /\ [](\A a \in Range(Given) : \A b \in Range(Given) :
            (EnqueuedAt(a) < EnqueuedAt(b) /\ Attempts[b] > 0) => Outcome[a] # "none")

C32_Witness ==
    /\ pc = "sleep"
    /\ Current = Some(1)
    /\ Retries >= 1
    /\ Line = <<2>>
    /\ Attempts[2] = 0

\* C33. A duplicate shares the license Signal of the action it was cloned
\* from: an attempt is refused with InvalidLicense exactly when the Signal of
\* the action Again holds is false at the check, so a revocation between two
\* attempts refuses the next one; and what the Worker does to the metadata
\* and the payload of a duplicate leaves those of the action as they were.
C33_SharedLicense ==
    /\ [][(pc = "license" /\ pc' # pc) =>
            (Tried'[Len(Tried')].result = "InvalidLicense"
                <=> ~Cells[Owned[1].LicenseSignal])]_vars
    /\ [](Handed # None => Handed[1].LicenseSignal = Owned[1].LicenseSignal)
    /\ [](Owned # None =>
            /\ Owned[1].Metadata = Current[1]
            /\ Owned[1].Content = Current[1])

\* The first attempt of an action failed under a valid license, the license
\* was revoked during the backoff, and the second attempt was refused, the
\* Worker having altered the duplicate of the first attempt.
C33_Witness ==
    /\ Len(Tried) = 2
    /\ Tried[1] = [action |-> 1, attempt |-> 1, result |-> "ExecutionError"]
    /\ Tried[2] = [action |-> 1, attempt |-> 2, result |-> "InvalidLicense"]
    /\ Spoiled

\* C34. Execute leaves the registry as it is: no step of an execution, of a
\* retry or of a lookup made beside them changes the function or signature
\* table, the dispatch stage of every attempt invokes the function bound to
\* the action's type, and no attempt answers that no function was found.
C34_RegistryKept ==
    /\ [][Function' = Function /\ Signature' = Signature]_vars
    /\ [][(xpc = "function" /\ xpc' # xpc) =>
            /\ Function[ActionType[1]] # None
            /\ Len(Events') = Len(Events) + 1
            /\ Events'[Len(Events')].stage = "function"
            /\ Events'[Len(Events')].name = Function[ActionType[1]][1]]_vars
    /\ [](~NoFunctionFound)

\* The function has failed in one attempt and been found again in the retry,
\* with a lookup of the same name by another holder made in between.
C34_Witness ==
    /\ Count("function") >= 2
    /\ Retries >= 1
    /\ Answer.op = "Remove"
    /\ Answer.name = ActionType
    /\ Answer.value # None

\* The deque locks a task holds.
Held(t) == {q \in Workers : QueueLock[q] = Some(t)}

\* C35. The work-stealing queue is deadlock-free: a task inside Do or Assign
\* holds at most one deque lock at any time, and with every worker calling
\* Do and main calling Assign concurrently every Do and every Assign that
\* has been called returns.
C35_DeadlockFree ==
    /\ [](\A t \in Workers \cup {MainTask} : Cardinality(Held(t)) <= 1)
    /\ \A w \in Workers : InDo(w) ~> (wpc[w] = "ret")
    /\ (apc # "idle") ~> (apc = "idle")

\* A worker that found its own deque empty holds the lock of a victim, while
\* the victim waits for that lock in its own Do and main waits for it in an
\* Assign.
C35_Witness ==
    \E w \in Workers : \E v \in Workers \ {w} :
        /\ wpc[w] = "steal_pop"
        /\ Held(w) = {v}
        /\ wpc[v] = "own_lock"
        /\ apc = "lock"
        /\ aarg[1][1] = v

\* C36. A negative max_retries is converted to u32 by wrapping: with
\* max_retries = -1 the bound Again reads is 2^32 - 1, so a failed attempt is
\* retried where a bound of 0 would give up at once and the default 3 after
\* the third retry, and the action is answered Ok at the attempt its Worker
\* succeeds.
C36_NegativeWraps ==
    /\ ReadMaxRetries(Some(I64MinusOne)) = U32Max
    /\ [][(pc = "again" /\ pc' # pc /\ Fate = Some(I64MinusOne))
            => MaxRetries' = U32Max]_vars
    /\ [][(pc = "inflight" /\ pc' # pc /\ ~ReceiveOk /\ Fate = Some(I64MinusOne))
            => (Retries' = Retries + 1 /\ Outcome' = Outcome)]_vars
    /\ [](Fate = Some(I64MinusOne) =>
            \A a \in Ids :
                /\ Outcome[a] # "err"
                /\ Outcome[a] = "ok" => Attempts[a] = Script[a])

\* Under max_retries = -1 an action was answered Ok at its fifth attempt,
\* after one retry more than the default allows.
C36_Witness ==
    \E a \in Ids :
        /\ Fate = Some(I64MinusOne)
        /\ Outcome[a] = "ok"
        /\ Attempts[a] = DefaultMaxRetries + 2
        /\ MaxRetries = U32Max

\* The number of places of q that hold a.
Times(q, a) == Cardinality({i \in 1..Len(q) : q[i] = a})

\* Again has returned the final error of action a.
GivenUp(a) == Outcome[a] = "err"

\* C37. An action whose retries are exhausted is discarded: once Again has
\* returned its final error the action is not in the queue and not held by
\* the driver, it was enqueued once and dequeued once and is never enqueued
\* or dequeued again, and the Worker is never handed it again.
C37_ExhaustedDiscarded ==
    /\ [](\A a \in Ids : GivenUp(a) =>
            /\ Times(Line, a) = 0
            /\ Current # Some(a)
            /\ Times(Given, a) = 1
            /\ Times(Taken, a) = 1)
    /\ [][\A a \in Ids : GivenUp(a) =>
            /\ GivenUp(a)'
            /\ Attempts'[a] = Attempts[a]
            /\ Times(Given', a) = Times(Given, a)
            /\ Times(Taken', a) = Times(Taken, a)]_vars
    /\ [][\A a \in Ids : (~GivenUp(a) /\ GivenUp(a)') =>
            /\ Current = Some(a)
            /\ Current' = None /\ Owned' = None /\ Handed' = None
            /\ Line' = Line]_vars

\* The first action was given up after its retries, and the driver has since
\* taken the action enqueued behind it and handed it to the Worker.
C37_Witness ==
    /\ GivenUp(1)
    /\ Attempts[1] >= 2
    /\ Current = Some(2)
    /\ Attempts[2] >= 1
    /\ Line = <<>>

\* C38. A failing item stops the drain and is lost: the step in which an
\* item popped from the queue fails ends the drain with the error and
\* leaves the queue as the pop left it; a drain that has ended takes nothing
\* from the queue; an item that was executed, failed or not, is never in
\* the queue again; and over the first call and its retries the items are
\* executed in the order they were popped, none twice.
C38_FailedItemLost ==
    /\ [][(dpc = "loop" /\ dpc' = "err") =>
            /\ Len(Drained') = Len(Drained) + 1
            /\ Drained'[Len(Drained')] = cres[Drainer][1][1]
            /\ Line' = Line
            /\ cres'[Drainer] = None]_vars
    /\ [][(dpc = "err" /\ dpc' = "err") => (IsPrefix(Line, Line') /\ Drained' = Drained)]_vars
    /\ [](\A i \in 1..Len(Drained) :
            /\ Times(Line, Drained[i]) = 0
            /\ Times(Given, Drained[i]) = 1
            /\ \A j \in 1..Len(Drained) : Drained[i] = Drained[j] => i = j)
    /\ [](IsPrefix(Drained, Taken) /\ Len(Taken) <= Len(Drained) + 1)
    /\ [][(dpc = "err" /\ dpc' = "loop") => (Line' = Line /\ Drained' = Drained)]_vars

\* The first item of three failed; the retry found the two behind it in
\* their order and has executed them and returned Ok.
C38_Witness ==
    /\ dpc = "ok"
    /\ Mark.line = <<2, 3>>
    /\ Drained = <<1, 2, 3>>
    /\ Line = <<>>

\* C39. The Work queue is last-in-first-out: Assign puts an action at the end
\* of the Vec and Execute takes the one at the end, the action assigned last
\* among those not yet taken, so with more than one action pending the one
\* that arrived first stays in the queue while a later one is processed.
C39_WorkIsLifo ==
    /\ [][Len(JobQueue') > Len(JobQueue) =>
            (yarg # None /\ JobQueue' = Append(JobQueue, yarg[1]))]_vars
    /\ [][(jpc = "execute_pop" /\ jpc' # jpc /\ JobQueue # <<>>) =>
            /\ jarg' = Some(JobQueue[Len(JobQueue)])
            /\ Took' = Append(Took, JobQueue[Len(JobQueue)])
            /\ JobQueue' = SubSeq(JobQueue, 1, Len(JobQueue) - 1)]_vars
    /\ [][Len(JobQueue') < Len(JobQueue) => (jpc = "execute_pop" /\ jpc' # jpc)]_vars

\* Two frames were heard and both actions assigned; the worker loop has
\* taken the action of the last frame while the action of the first is
\* still in the queue.
C39_Witness ==
    /\ Heard = 2
    /\ Len(Took) = 1
    /\ Len(JobQueue) = 1
    /\ Last # None
    /\ Accepted(Last[1]) = Some(Took[1])
    /\ JobQueue[1] # Took[1]

====
